---------------------------- MODULE Spec2Model ----------------------------
(***************************************************************************)
(* A model of Schemey (deanmchris/Schemey): the lexer and the parser, the  *)
(* expression algebra, the compiler to stack-machine bytecode, the         *)
(* bytecode serializer and deserializer, the environment chain, the        *)
(* virtual machine, the tree interpreter, and the drivers run_file and     *)
(* run_repl.                                                               *)
(*                                                                         *)
(* Python objects are records tagged by their class in the field t.  A     *)
(* Python str (a symbol's name, a line of output) is a sequence of code    *)
(* points.  Environments are objects with identity: they live in a heap    *)
(* (a sequence) and are referred to by their index; 0 is None.             *)
(***************************************************************************)
EXTENDS Integers, Sequences, FiniteSets, TLC

VARIABLES
    prog,          \* the parsed program: a sequence of top-level data
    pc,            \* where the driver is
    code,          \* the CodeObject compile() returned (None before)
    frames,        \* VirtualMachine.frames
    frame,         \* VirtualMachine.frame: its position in frames, 0 for None
    envs,          \* the heap of Environment objects the VM allocated
    return_value,  \* VirtualMachine.return_value
    output,        \* what the VM wrote to its output stream, line by line
    vmerr,         \* the exception that aborted compile or run_code ("" if none)
    ienvs,         \* the heap of Environment objects of the Interpreter
    ienv,          \* Interpreter.environment
    ipos,          \* the number of top-level forms the Interpreter has run
    iout,          \* what the Interpreter wrote to its output stream
    ierr,          \* the exception that aborted the Interpreter ("" if none)
    bytes,         \* the byte stream handed to the Deserializer
    sererr,        \* the exception Serializer.serialize raised ("" if none)
    decoded,       \* what Deserializer.deserialize returned or raised
    last,          \* the last call made on its own (Environment, file, Lexer,
                   \* Parser, a second run_code, run_file) and its outcome
    lexer          \* the Lexer at work: its buffer and its pos (None before)

vars == <<prog, pc, code, frames, frame, envs, return_value, output, vmerr,
          ienvs, ienv, ipos, iout, ierr, bytes, sererr, decoded, last, lexer>>

----------------------------------------------------------------------------
(* Bounds of the model.                                                    *)

MaxNum == 2        \* integer literals of the program families: 0..MaxNum
MaxFrames == 6     \* depth of the VM frame stack and of interpreter calls
MaxClauses == 3    \* clauses of the cond expressions of the program families
MaxEnvs == 2       \* Environment objects in the environment specification

----------------------------------------------------------------------------
(* Python values.                                                          *)

None == [t |-> "NoneType"]
PyInt(k) == [t |-> "int", value |-> k]
PyBool(b) == [t |-> "bool", value |-> IF b THEN 1 ELSE 0]
PyTrue == PyBool(TRUE)
PyFalse == PyBool(FALSE)

\* '<#undef>', the str the VM's print and load return
Undef == [t |-> "str", value |-> <<60, 35, 117, 110, 100, 101, 102, 62>>]

(* expressions.py: the classes of parsed Scheme data.                      *)
Pair(first, second) == [t |-> "Pair", first |-> first, second |-> second]
Number(value) == [t |-> "Number", value |-> value]
Symbol(value) == [t |-> "Symbol", value |-> value]
Boolean(value) == [t |-> "Boolean", value |-> value]
Nil == [t |-> "Nil"]

IsInstance(obj, cls) == obj.t = cls

\* Python's truth value of an object (None, 0, False and empty are falsy)
Truthy(obj) ==
    CASE obj.t = "NoneType" -> FALSE
      [] obj.t \in {"int", "bool"} -> obj.value # 0
      [] obj.t = "str" -> obj.value # <<>>
      [] OTHER -> TRUE

\* Python's == on two int/bool values (True == 1, False == 0)
PyNumEq(a, b) == a.value = b.value

(* The __eq__ methods of Pair, Number, Symbol, Boolean and Nil; a str      *)
(* compares by its characters, any other object by identity.               *)
RECURSIVE PyEq(_, _)
PyEq(a, b) ==
    CASE a.t = "Pair" ->
           IF b.t = "Pair"
           THEN PyEq(a.first, b.first) /\ PyEq(a.second, b.second)
           ELSE FALSE
      [] a.t = "Number" ->
           IF b.t = "Number" THEN a.value = b.value ELSE FALSE
      [] a.t = "Symbol" ->
           IF b.t \in {"Symbol", "str"} THEN a.value = b.value ELSE FALSE
      [] a.t = "Boolean" ->
           IF b.t = "Boolean" THEN PyNumEq(a.value, b.value) ELSE FALSE
      [] a.t = "Nil" -> b.t = "Nil"
      [] a.t = "str" ->
           IF b.t \in {"Symbol", "str"} THEN a.value = b.value ELSE FALSE
      [] a.t \in {"int", "bool"} ->
           IF b.t \in {"int", "bool"} THEN PyNumEq(a, b) ELSE FALSE
      [] OTHER -> a = b

----------------------------------------------------------------------------
(* Names, as sequences of code points.                                     *)

s_quote == <<113, 117, 111, 116, 101>>
s_set == <<115, 101, 116, 33>>
s_begin == <<98, 101, 103, 105, 110>>
s_define == <<100, 101, 102, 105, 110, 101>>
s_if == <<105, 102>>
s_cond == <<99, 111, 110, 100>>
s_let == <<108, 101, 116>>
s_lambda == <<108, 97, 109, 98, 100, 97>>
s_else == <<101, 108, 115, 101>>
s_print == <<112, 114, 105, 110, 116>>
s_load == <<108, 111, 97, 100>>
s_plus == <<43>>
s_minus == <<45>>
s_times == <<42>>
s_eq == <<61>>
s_lt == <<60>>
s_gt == <<62>>
s_ge == <<62, 61>>
s_le == <<60, 61>>
s_x == <<120>>
s_y == <<121>>
s_f == <<102>>
s_g == <<103>>
s_h == <<104>>
s_a == <<97>>
s_b == <<98>>
s_n == <<110>>
\* 'Anonymous procedure'
s_anonymous == <<65, 110, 111, 110, 121, 109, 111, 117, 115, 32,
                 112, 114, 111, 99, 101, 100, 117, 114, 101>>

Str(chars) == [t |-> "str", value |-> chars]


----------------------------------------------------------------------------
(* expressions.py: recognizers, accessors and desugarings.                 *)

RECURSIVE expand_nested_pairs(_)
expand_nested_pairs(pair) ==
    IF IsInstance(pair, "Pair")
    THEN <<pair.first>> \o expand_nested_pairs(pair.second)
    ELSE <<>>

RECURSIVE make_nested_pairs_from_seq(_)
make_nested_pairs_from_seq(args) ==
    IF args = <<>>
    THEN Nil
    ELSE Pair(Head(args), make_nested_pairs_from_seq(Tail(args)))

is_tagged(expr, tag) == PyEq(expr.first, tag)
is_null(expr) == IsInstance(expr, "Nil")
is_const(expr) == IsInstance(expr, "Number") \/ IsInstance(expr, "Boolean")
is_variable(expr) == IsInstance(expr, "Symbol")
is_quoted(expr) == is_tagged(expr, Str(s_quote))
is_assignment(expr) == is_tagged(expr, Str(s_set))
is_begin(expr) == is_tagged(expr, Str(s_begin))
is_definition(expr) == is_tagged(expr, Str(s_define))
is_if(expr) == is_tagged(expr, Str(s_if))
is_cond(expr) == is_tagged(expr, Str(s_cond))
is_lambda(expr) == is_tagged(expr, Str(s_lambda))
is_proc_call(expr) == IsInstance(expr, "Pair")

variable_name(expr) == expr.second.first
variable_value(expr) == expr.second.second.first
if_cond(expr) == expr.second.first
if_then(expr) == expr.second.second.first
if_else(expr) == expr.second.second.second.first
lambda_parameters(expr) == expr.second.first
lambda_body(expr) == expr.second.second
make_lambda(parameters, body) == Pair(Symbol(s_lambda), Pair(parameters, body))

definition_value(expr) ==
    IF IsInstance(expr.second.first, "Symbol")
    THEN expr.second.second.first
    ELSE make_lambda(expr.second.first.second, expr.second.second)

definition_variable(expr) ==
    IF IsInstance(expr.second.first, "Symbol")
    THEN expr.second.first
    ELSE expr.second.first.first

cond_actions(clause) == clause.second
cond_clauses(expr) == expr.second
make_if(cond, then, else) ==
    make_nested_pairs_from_seq(<<Symbol(s_if), cond, then, else>>)

\* a conversion that keeps only the first expression of a clause body
first_of_sequence(exprs) ==
    IF IsInstance(exprs, "Nil") THEN Nil ELSE exprs.first

sequence_to_expression(exprs) ==
    IF IsInstance(exprs, "Nil") THEN Nil
    ELSE IF IsInstance(exprs.second, "Nil") THEN exprs.first
    ELSE Pair(Symbol(s_begin), exprs)

\* the result is [err, expr]: ExpressionError when else is not the last clause
RECURSIVE make_ifs_from_cond(_)
make_ifs_from_cond(clauses) ==
    IF IsInstance(clauses, "Nil")
    THEN [err |-> "", expr |-> Boolean(PyFalse)]
    ELSE LET first == clauses.first
             rest == clauses.second
         IN IF is_tagged(first, Symbol(s_else))
            THEN IF IsInstance(rest, "Nil")
                 THEN [err |-> "",
                       expr |-> sequence_to_expression(cond_actions(first))]
                 ELSE [err |-> "ExpressionError", expr |-> None]
            ELSE LET tail == make_ifs_from_cond(rest)
                 IN IF tail.err # ""
                    THEN tail
                    ELSE [err |-> "",
                          expr |-> make_if(first.first,
                                    sequence_to_expression(cond_actions(first)),
                                    tail.expr)]

quoted_text(expr) == expr.second.first
begin_body(expr) == expr.second
procedure_args(expr) == expr.second
procedure_op(expr) == expr.first

(* is_let and make_let_into_lambda are used by compiler.py and             *)
(* interpreter.py but are not defined in expressions.py as given.          *)
is_let(expr) == is_tagged(expr, Str(s_let))

RECURSIVE let_names(_)
let_names(bindings) ==
    IF IsInstance(bindings, "Pair")
    THEN Pair(bindings.first.first, let_names(bindings.second))
    ELSE Nil

RECURSIVE let_values(_)
let_values(bindings) ==
    IF IsInstance(bindings, "Pair")
    THEN Pair(bindings.first.second.first, let_values(bindings.second))
    ELSE Nil

make_let_into_lambda(expr) ==
    Pair(make_lambda(let_names(expr.second.first), expr.second.second),
         let_values(expr.second.first))

----------------------------------------------------------------------------
(* bytecode.py: opcodes, Instruction and CodeObject.                       *)

OP_LOAD_CONST == 0
OP_LOAD_VAR == 1
OP_SET_VAR == 2
OP_DEF_VAR == 3
OP_DEF_FUNC == 4
OP_PROC_CALL == 5
OP_JUMP_IF_FALSE == 6
OP_JUMP == 7
OP_RETURN == 8
OP_POP == 9

Instruction(opcode, arg) == [t |-> "Instruction", opcode |-> opcode, arg |-> arg]

\* CodeObject.__init__: name or 'Anonymous procedure'
CodeObject(co_code, args, constants, varnames, name) ==
    [t |-> "CodeObject",
     name |-> IF Truthy(name) THEN name ELSE Str(s_anonymous),
     code |-> co_code, args |-> args,
     constants |-> constants, varnames |-> varnames]

----------------------------------------------------------------------------
(* utils.py and compiler.py: the assembler.  Indices into constants,       *)
(* varnames and code are 0-based as in the source; a TLA+ sequence is      *)
(* 1-based, so entry k of a list is seq[k + 1].                            *)

Label(name) == [t |-> "Label", name |-> name]

\* the index of the first element equal (==) to item, or -1
RECURSIVE list_index(_, _, _)
list_index(seq, item, from) ==
    IF from > Len(seq) THEN -1
    ELSE IF PyEq(seq[from], item) THEN from - 1
    ELSE list_index(seq, item, from + 1)

\* a find_or_append that never finds: the item is always appended
always_append(seq, item) == [seq |-> Append(seq, item), index |-> Len(seq)]

\* find_or_append returns the index and leaves the list extended
find_or_append(seq, item) ==
    LET found == list_index(seq, item, 1)
    IN IF found >= 0
       THEN [seq |-> seq, index |-> found]
       ELSE [seq |-> Append(seq, item), index |-> Len(seq)]

\* a map that gives each Label the position 0
first_position(func_code) ==
    [n \in {func_code[i].name :
               i \in {j \in DOMAIN func_code : IsInstance(func_code[j], "Label")}}
       |-> 0]

\* a map that gives each Label its index in func_code, Labels counted
label_indexes(func_code) ==
    LET labels == {i \in DOMAIN func_code : IsInstance(func_code[i], "Label")}
    IN [n \in {func_code[i].name : i \in labels} |->
          CHOOSE i \in labels :
              /\ func_code[i].name = n
              /\ \A j \in labels : func_code[j].name = n => j <= i]

(* label name -> position.  pos counts the instructions that are not       *)
(* Labels, so the position stored for the Label at index i is the number   *)
(* of non-Label entries before i; a later Label of the same name           *)
(* overwrites an earlier one.                                              *)
_assemble_jump_targets(func_code) ==
    LET labels == {i \in DOMAIN func_code : IsInstance(func_code[i], "Label")}
        latest(n) == CHOOSE i \in labels :
                        /\ func_code[i].name = n
                        /\ \A j \in labels : func_code[j].name = n => j <= i
    IN [n \in {func_code[i].name : i \in labels} |->
          Cardinality({j \in 1..(latest(n) - 1) :
                          ~IsInstance(func_code[j], "Label")})]

(* one turn of the loop of _assemble_codeobject; acc is                    *)
(* [code, constants, varnames, err], err the exception raised ("" if none) *)
assemble_instruction(instruction, label_pos_map, acc) ==
    LET op == instruction.opcode
    IN CASE op = OP_LOAD_CONST ->
              IF instruction.arg.t \in {"Pair", "String"}
              THEN [acc EXCEPT
                      !.constants = Append(@, instruction.arg),
                      !.code = Append(@, Instruction(op, PyInt(Len(acc.constants))))]
              ELSE LET fa == find_or_append(acc.constants, instruction.arg)
                   IN [acc EXCEPT
                         !.constants = fa.seq,
                         !.code = Append(@, Instruction(op, PyInt(fa.index)))]
         [] op \in {OP_LOAD_VAR, OP_DEF_VAR, OP_SET_VAR} ->
              LET fa == find_or_append(acc.varnames, Str(instruction.arg.value))
              IN [acc EXCEPT
                    !.varnames = fa.seq,
                    !.code = Append(@, Instruction(op, PyInt(fa.index)))]
         [] op = OP_DEF_FUNC ->
              [acc EXCEPT
                 !.constants = Append(@, instruction.arg),
                 !.code = Append(@, Instruction(op, PyInt(Len(acc.constants))))]
         [] op = OP_PROC_CALL ->
              [acc EXCEPT !.code = Append(@, Instruction(op, instruction.arg))]
         [] op \in {OP_JUMP, OP_JUMP_IF_FALSE} ->
              [acc EXCEPT !.code = Append(@,
                  Instruction(op, PyInt(label_pos_map[instruction.arg.name])))]
         [] op \in {OP_POP, OP_RETURN} ->
              [acc EXCEPT !.code = Append(@, Instruction(op, None))]
         [] OTHER -> [acc EXCEPT !.err = "CompilerError"]

(* The loop of _assemble_codeobject over func_code[lo..hi], started with   *)
(* acc: the loop over the first half of the range and, unless that raised, *)
(* the loop over the second half started with what the first half left.    *)
RECURSIVE assemble_from(_, _, _, _, _)
assemble_from(func_code, lo, hi, label_pos_map, acc) ==
    CASE lo > hi -> acc
      [] lo = hi ->
           IF IsInstance(func_code[lo], "Label")
           THEN acc
           ELSE assemble_instruction(func_code[lo], label_pos_map, acc)
      [] lo < hi ->
           LET front == assemble_from(func_code, lo, (lo + hi) \div 2,
                                      label_pos_map, acc)
           IN IF front.err # ""
              THEN front
              ELSE assemble_from(func_code, (lo + hi) \div 2 + 1, hi,
                                 label_pos_map, front)

\* [err, co]: the CodeObject returned, or the exception raised
_assemble_codeobject(func_code, label_pos_map, args) ==
    LET acc == assemble_from(func_code, 1, Len(func_code), label_pos_map,
                   [code |-> <<>>, constants |-> <<>>, varnames |-> <<>>,
                    err |-> ""])
    IN [err |-> acc.err,
        co |-> CodeObject(acc.code, args, acc.constants, acc.varnames, Str(<<>>))]

----------------------------------------------------------------------------
(* compiler.py: class Compiler.  A compile method's result is              *)
(* [ins, single, lbl, err]: the instructions and labels it returns, whether *)
(* it returned one Instruction rather than a list, the value of            *)
(* self._curr_label afterwards, and the exception it raised ("" if none).  *)

Compiled(ins, single, lbl) ==
    [ins |-> ins, single |-> single, lbl |-> lbl, err |-> ""]
CompileFailed(err, lbl) ==
    [ins |-> <<>>, single |-> FALSE, lbl |-> lbl, err |-> err]

AllSymbols(args) == \A i \in 1..Len(args) : IsInstance(args[i], "Symbol")

RECURSIVE _compile(_, _)
RECURSIVE compile_list(_, _, _, _)
RECURSIVE _compile_lambda(_, _)
RECURSIVE _compile_definition(_, _)
RECURSIVE _compile_if(_, _)
RECURSIVE _compile_proc_call(_, _)
RECURSIVE _compile_assignment(_, _)
RECURSIVE _compile_cond(_, _)

(* The first n expressions compiled one after the other, each followed by *)
(* POP when with_pop: the comprehensions of _compile_expressions and       *)
(* _compile_proc_call after n turns, front what the turns before the n-th  *)
(* gave and cur the n-th _compile.                                         *)
compile_list(expressions, n, lbl, with_pop) ==
    LET appended(front, cur) ==
            IF cur.err # ""
            THEN cur
            ELSE Compiled(front.ins \o cur.ins
                            \o (IF with_pop
                                THEN <<Instruction(OP_POP, None)>>
                                ELSE <<>>),
                          FALSE, cur.lbl)
        after(front) ==
            IF front.err # ""
            THEN front
            ELSE appended(front, _compile(expressions[n], front.lbl))
    IN IF n = 0
       THEN Compiled(<<>>, FALSE, lbl)
       ELSE after(compile_list(expressions, n - 1, lbl, with_pop))

\* flat_instructions[:-1]; an exception of a _compile leaves no instructions
_compile_expressions(expressions, lbl) ==
    LET all == compile_list(expressions, Len(expressions), lbl, TRUE)
    IN [all EXCEPT !.ins = SubSeq(@, 1, Len(@) - 1)]

_compile_begin(expr, lbl) ==
    _compile_expressions(expand_nested_pairs(expr), lbl)

_compile_lambda(expr, lbl) ==
    LET well_formed == IsInstance(expr.second, "Pair")
        args == expand_nested_pairs(lambda_parameters(expr))
        defined(body, assembled) ==
            IF assembled.err # ""
            THEN CompileFailed(assembled.err, body.lbl)
            ELSE Compiled(<<Instruction(OP_DEF_FUNC, assembled.co)>>,
                          TRUE, body.lbl)
        assemble(body, lambda_code) ==
            defined(body,
                    _assemble_codeobject(lambda_code,
                        _assemble_jump_targets(lambda_code), args))
        with_body(body) ==
            IF body.err # ""
            THEN body
            ELSE assemble(body, body.ins \o <<Instruction(OP_RETURN, None)>>)
    IN CASE expr.second = None -> CompileFailed("CompilerError", lbl)
         [] expr.second # None /\ ~well_formed ->
              CompileFailed("AttributeError", lbl)
         [] well_formed /\ ~AllSymbols(args) ->
              CompileFailed("CompilerError", lbl)
         [] well_formed /\ AllSymbols(args) ->
              with_body(_compile_begin(lambda_body(expr), lbl))

_compile_definition(expr, lbl) ==
    LET has_value ==
            /\ IsInstance(expr.second, "Pair")
            /\ expr.second.second # None
            /\ IsInstance(expr.second.first, "Symbol")
                   => IsInstance(expr.second.second, "Pair")
        var == definition_variable(expr)
        named(value) ==
            IF value.single /\ IsInstance(value.ins[1].arg, "CodeObject")
            THEN <<[value.ins[1] EXCEPT !.arg.name = Str(var.value)]>>
            ELSE value.ins
        defined(value) ==
            IF value.err # ""
            THEN value
            ELSE Compiled(named(value) \o <<Instruction(OP_DEF_VAR, var)>>,
                          FALSE, value.lbl)
    IN CASE ~IsInstance(expr.second, "Pair") ->
              CompileFailed("AttributeError", lbl)
         [] IsInstance(expr.second, "Pair") /\ expr.second.second = None ->
              CompileFailed("CompilerError", lbl)
         [] IsInstance(expr.second, "Pair") /\ expr.second.second # None
               /\ ~has_value ->
              CompileFailed("AttributeError", lbl)
         [] has_value -> defined(_compile(definition_value(expr), lbl))

_compile_if(expr, lbl) ==
    LET then_branch_jump == Label(lbl)
        else_branch_jump == Label(lbl + 1)
        with_else(c, th, el) ==
            IF el.err # ""
            THEN el
            ELSE Compiled(
                   c.ins
                     \o <<Instruction(OP_JUMP_IF_FALSE, then_branch_jump)>>
                     \o th.ins
                     \o <<Instruction(OP_JUMP, else_branch_jump)>>
                     \o <<then_branch_jump>>
                     \o el.ins
                     \o <<else_branch_jump>>,
                   FALSE, el.lbl)
        with_then(c, th) ==
            IF th.err # ""
            THEN th
            ELSE with_else(c, th, _compile(if_else(expr), th.lbl))
        with_cond(c) ==
            IF c.err # ""
            THEN c
            ELSE with_then(c, _compile(if_then(expr), c.lbl))
    IN IF Len(expand_nested_pairs(expr)) < 4
       THEN CompileFailed("CompilerError", lbl)
       ELSE with_cond(_compile(if_cond(expr), lbl + 2))

_compile_proc_call(expr, lbl) ==
    LET args == expand_nested_pairs(procedure_args(expr))
        with_op(compiled_args, compiled_op) ==
            IF compiled_op.err # ""
            THEN compiled_op
            ELSE Compiled(
                   compiled_args.ins
                     \o compiled_op.ins
                     \o <<Instruction(OP_PROC_CALL, PyInt(Len(args)))>>,
                   FALSE, compiled_op.lbl)
        with_args(compiled_args) ==
            IF compiled_args.err # ""
            THEN compiled_args
            ELSE with_op(compiled_args,
                         _compile(procedure_op(expr), compiled_args.lbl))
    IN with_args(compile_list(args, Len(args), lbl, FALSE))

(* The branch that the if/elif chain of Compiler._compile and of            *)
(* Interpreter._eval takes for expr.  is_tagged reads expr.first, so an     *)
(* expr that is neither a constant, Nil, a Symbol nor a Pair raises         *)
(* AttributeError at the first tag test.                                    *)
Branch(expr) ==
    IF is_null(expr) THEN "null"
    ELSE IF is_const(expr) THEN "const"
    ELSE IF is_variable(expr) THEN "variable"
    ELSE IF ~IsInstance(expr, "Pair") THEN "AttributeError"
    ELSE IF is_quoted(expr) THEN "quoted"
    ELSE IF is_assignment(expr) THEN "assignment"
    ELSE IF is_lambda(expr) THEN "lambda"
    ELSE IF is_begin(expr) THEN "begin"
    ELSE IF is_definition(expr) THEN "definition"
    ELSE IF is_if(expr) THEN "if"
    ELSE IF is_cond(expr) THEN "cond"
    ELSE IF is_let(expr) THEN "let"
    ELSE IF is_proc_call(expr) THEN "proc_call"
    ELSE "unknown"

_compile_assignment(expr, lbl) ==
    LET assigned(value) ==
            IF value.err # ""
            THEN value
            ELSE Compiled(
                   value.ins
                     \o <<Instruction(OP_SET_VAR, variable_name(expr))>>,
                   FALSE, value.lbl)
    IN assigned(_compile(variable_value(expr), lbl))

_compile_cond(expr, lbl) ==
    LET compiled(ifs) ==
            IF ifs.err # ""
            THEN CompileFailed(ifs.err, lbl)
            ELSE _compile(ifs.expr, lbl)
    IN compiled(make_ifs_from_cond(cond_clauses(expr)))

_compile(expr, lbl) ==
    CASE Branch(expr) \in {"null", "const"} ->
           Compiled(<<Instruction(OP_LOAD_CONST, expr)>>, TRUE, lbl)
      [] Branch(expr) = "variable" ->
           Compiled(<<Instruction(OP_LOAD_VAR, expr)>>, TRUE, lbl)
      [] Branch(expr) = "AttributeError" -> CompileFailed("AttributeError", lbl)
      [] Branch(expr) = "quoted" ->
           Compiled(<<Instruction(OP_LOAD_CONST, quoted_text(expr))>>, TRUE, lbl)
      [] Branch(expr) = "assignment" -> _compile_assignment(expr, lbl)
      [] Branch(expr) = "lambda" -> _compile_lambda(expr, lbl)
      [] Branch(expr) = "begin" -> _compile_begin(begin_body(expr), lbl)
      [] Branch(expr) = "definition" -> _compile_definition(expr, lbl)
      [] Branch(expr) = "if" -> _compile_if(expr, lbl)
      [] Branch(expr) = "cond" -> _compile_cond(expr, lbl)
      [] Branch(expr) = "let" -> _compile(make_let_into_lambda(expr), lbl)
      [] Branch(expr) = "proc_call" -> _compile_proc_call(expr, lbl)
      [] Branch(expr) = "unknown" -> CompileFailed("CompilerError", lbl)

\* Compiler.compile: the top-level CodeObject, or the exception
compile(expressions) ==
    LET finished(assembled) ==
            IF assembled.err # ""
            THEN [err |-> assembled.err, co |-> None]
            ELSE assembled
        assemble(compiled_expressions) ==
            IF compiled_expressions.err # ""
            THEN [err |-> compiled_expressions.err, co |-> None]
            ELSE finished(_assemble_codeobject(
                            compiled_expressions.ins,
                            _assemble_jump_targets(compiled_expressions.ins),
                            <<>>))
    IN assemble(_compile_expressions(expressions, 0))

----------------------------------------------------------------------------
(* environment.py: class Environment.  An Environment object is a record   *)
(* [binding, parent_env] in a heap; binding is a function from names to    *)
(* values (a dict) and parent_env the index of the parent or 0 (None).  A  *)
(* parent_env below 0 is an object that is not an Environment (the Frame   *)
(* that _make_frame passes on when self.frame is set): calling a method of *)
(* Environment on it raises AttributeError.                                *)

Environment(binding, parent_env) == [binding |-> binding, parent_env |-> parent_env]

DictSet(binding, key, value) ==
    [k \in DOMAIN binding \cup {key} |-> IF k = key THEN value ELSE binding[k]]

\* a lookup in which the outermost binding wins
RECURSIVE lookup_var_outermost(_, _, _)
lookup_var_outermost(heap, self, varname) ==
    LET outer == IF heap[self].parent_env # 0
                 THEN lookup_var_outermost(heap, heap[self].parent_env, varname)
                 ELSE [err |-> "Undefined", val |-> None]
    IN IF outer.err = "" THEN outer
       ELSE IF varname \in DOMAIN heap[self].binding
       THEN [err |-> "", val |-> heap[self].binding[varname]]
       ELSE outer

\* a define that replaces the binding of the parent when the parent has one
define_var_parent(heap, self, varname, value) ==
    LET parent == heap[self].parent_env
        where == IF parent # 0 /\ varname \in DOMAIN heap[parent].binding
                 THEN parent ELSE self
    IN [heap EXCEPT ![where].binding = DictSet(@, varname, value)]

\* a set that binds the name in the current frame when no frame has it
RECURSIVE set_var_creating(_, _, _, _)
set_var_creating(heap, self, varname, value) ==
    IF varname \in DOMAIN heap[self].binding \/ heap[self].parent_env = 0
    THEN [err |-> "",
          heap |-> [heap EXCEPT ![self].binding = DictSet(@, varname, value)]]
    ELSE set_var_creating(heap, heap[self].parent_env, varname, value)

\* the result is [err, val]
RECURSIVE lookup_var(_, _, _)
lookup_var(heap, self, varname) ==
    IF varname \in DOMAIN heap[self].binding
    THEN [err |-> "", val |-> heap[self].binding[varname]]
    ELSE IF heap[self].parent_env > 0
    THEN lookup_var(heap, heap[self].parent_env, varname)
    ELSE IF heap[self].parent_env < 0
    THEN [err |-> "AttributeError", val |-> None]
    ELSE [err |-> "Undefined", val |-> None]

\* the result is the heap afterwards
define_var(heap, self, varname, value) ==
    [heap EXCEPT ![self].binding = DictSet(@, varname, value)]

\* the result is [err, heap]
RECURSIVE set_var(_, _, _, _)
set_var(heap, self, varname, value) ==
    IF varname \in DOMAIN heap[self].binding
    THEN [err |-> "",
          heap |-> [heap EXCEPT ![self].binding = DictSet(@, varname, value)]]
    ELSE IF heap[self].parent_env > 0
    THEN set_var(heap, heap[self].parent_env, varname, value)
    ELSE IF heap[self].parent_env < 0
    THEN [err |-> "AttributeError", heap |-> heap]
    ELSE [err |-> "Undefined", heap |-> heap]

\* the environments reached from self through parent_env, self first
RECURSIVE Chain(_, _)
Chain(heap, self) ==
    IF self <= 0 THEN <<>> ELSE <<self>> \o Chain(heap, heap[self].parent_env)

----------------------------------------------------------------------------
(* str() and repr() of the objects a program can print.                    *)

RECURSIVE Digits(_)
Digits(k) == IF k < 10 THEN <<48 + k>> ELSE Digits(k \div 10) \o <<48 + (k % 10)>>

\* str(int)
IntStr(k) == IF k < 0 THEN <<45>> \o Digits(-k) ELSE Digits(k)

s_closure_open == <<35, 60, 67, 108, 111, 115, 117, 114, 101, 32>>         \* '#<Closure '
s_procedure_open == <<35, 60, 80, 114, 111, 99, 101, 100, 117, 114, 101, 32>> \* '#<Procedure '
s_none == <<78, 111, 110, 101>>                                             \* 'None'

RECURSIVE Repr(_)
RECURSIVE PairRest(_)
\* the loop of Pair.__repr__ from obj on
PairRest(obj) ==
    IF IsInstance(obj.second, "Pair")
    THEN <<32>> \o Repr(obj.second.first) \o PairRest(obj.second)
    ELSE IF IsInstance(obj.second, "Nil")
    THEN <<41>>
    ELSE <<32, 46, 32>> \o Repr(obj.second) \o <<41>>

Repr(obj) ==
    CASE obj.t = "Pair" -> <<40>> \o Repr(obj.first) \o PairRest(obj)
      [] obj.t = "Number" -> IntStr(obj.value)
      [] obj.t = "Symbol" -> obj.value
      [] obj.t = "Boolean" -> IF Truthy(obj.value) THEN <<35, 116>> ELSE <<35, 102>>
      [] obj.t = "Nil" -> <<40, 41>>
      [] obj.t = "NoneType" -> s_none
      [] obj.t = "str" -> <<39>> \o obj.value \o <<39>>
      [] obj.t = "Closure" -> s_closure_open \o obj.codeobject.name.value \o <<62>>
      [] obj.t = "IClosure" -> s_closure_open \o obj.name.value \o <<62>>
      [] obj.t = "Procedure" -> s_procedure_open \o obj.name \o <<62>>

\* str(obj): a str is itself, every other class falls back to __repr__
ToStr(obj) == IF obj.t = "str" THEN obj.value ELSE Repr(obj)

----------------------------------------------------------------------------
(* _builtins.py: class Procedure and the built-in procedures.  A Procedure *)
(* is [t, name]; its builtin_proc is the entry of builtin_map (or the      *)
(* evaluator's print) of that name.  Of builtin_map the model keeps the    *)
(* entries below.                                                          *)

s_not == <<110, 111, 116>>
s_cons == <<99, 111, 110, 115>>
s_car == <<99, 97, 114>>
s_cdr == <<99, 100, 114>>

Procedure(name) == [t |-> "Procedure", name |-> name]

ArithNames == {s_plus, s_minus, s_times}
CompNames == {s_eq, s_gt, s_lt, s_ge, s_le}
builtin_map == ArithNames \cup CompNames \cup {s_not, s_cons, s_car, s_cdr}

\* utils.get_number_of_params: -1 stands for 'positional' (a *args function)
get_number_of_params(name) ==
    CASE name \in ArithNames \cup CompNames \cup {s_print} -> -1
      [] name \in {s_not, s_car, s_cdr} -> 1
      [] name = s_cons -> 2

AllInstances(objs, cls) == \A i \in 1..Len(objs) : IsInstance(objs[i], cls)

\* el.value of an argument of comp_op: [err, val]
ValueAttr(el) ==
    CASE el.t = "Number" -> [err |-> "", val |-> PyInt(el.value)]
      [] el.t = "Boolean" -> [err |-> "", val |-> el.value]
      [] el.t = "Symbol" -> [err |-> "", val |-> Str(el.value)]
      [] el.t = "Nil" -> [err |-> "", val |-> Str(<<40, 41>>)]
      [] OTHER -> [err |-> "AttributeError", val |-> None]

IsNum(v) == v.t \in {"int", "bool"}

\* op_func(a, b) on Python values: [err, val]
op_func(name, a, b) ==
    CASE name = s_plus -> [err |-> "", val |-> PyInt(a.value + b.value)]
      [] name = s_minus -> [err |-> "", val |-> PyInt(a.value - b.value)]
      [] name = s_times -> [err |-> "", val |-> PyInt(a.value * b.value)]
      [] name = s_eq -> [err |-> "", val |-> PyBool(PyEq(a, b))]
      [] name = s_lt /\ IsNum(a) /\ IsNum(b) ->
           [err |-> "", val |-> PyBool(a.value < b.value)]
      [] name = s_gt /\ IsNum(a) /\ IsNum(b) ->
           [err |-> "", val |-> PyBool(a.value > b.value)]
      [] name = s_ge /\ IsNum(a) /\ IsNum(b) ->
           [err |-> "", val |-> PyBool(a.value >= b.value)]
      [] name = s_le /\ IsNum(a) /\ IsNum(b) ->
           [err |-> "", val |-> PyBool(a.value <= b.value)]
      [] name \in {s_lt, s_gt, s_ge, s_le} /\ IsNum(a) # IsNum(b) ->
           [err |-> "TypeError", val |-> None]

\* functools.reduce(op_func, values[from..]) with acc the value so far
RECURSIVE reduce_from(_, _, _, _)
reduce_from(name, values, from, acc) ==
    IF from > Len(values)
    THEN [err |-> "", val |-> acc]
    ELSE LET r == op_func(name, acc, values[from])
         IN IF r.err # "" THEN r ELSE reduce_from(name, values, from + 1, r.val)

reduce(name, values) ==
    IF values = <<>>
    THEN [err |-> "TypeError", val |-> None]
    ELSE reduce_from(name, values, 2, values[1])

arith_op(name, args) ==
    IF ~AllInstances(args, "Number")
    THEN [err |-> "ProcedureError", val |-> None]
    ELSE LET r == reduce(name, [i \in 1..Len(args) |-> PyInt(args[i].value)])
         IN IF r.err # "" THEN r ELSE [err |-> "", val |-> Number(r.val.value)]

comp_op(name, args) ==
    LET attrs == [i \in 1..Len(args) |-> ValueAttr(args[i])]
    IN IF \E i \in 1..Len(args) : attrs[i].err # ""
       THEN [err |-> "AttributeError", val |-> None]
       ELSE LET r == reduce(name, [i \in 1..Len(args) |-> attrs[i].val])
            IN IF r.err # "" THEN r ELSE [err |-> "", val |-> Boolean(r.val)]

builtin_not(obj) ==
    IF IsInstance(obj, "Boolean") /\ PyEq(obj.value, PyFalse)
    THEN Boolean(PyTrue)
    ELSE Boolean(PyFalse)

builtin_car(pair) ==
    IF ~IsInstance(pair, "Pair") \/ pair.first = None
    THEN [err |-> "ProcedureError", val |-> None]
    ELSE [err |-> "", val |-> pair.first]

builtin_cdr(pair) ==
    IF ~IsInstance(pair, "Pair") \/ pair.first = None
    THEN [err |-> "ProcedureError", val |-> None]
    ELSE [err |-> "", val |-> pair.second]

\* Procedure.apply for the procedures of builtin_map: [err, val]
apply(proc, args) ==
    LET argc == get_number_of_params(proc.name)
    IN IF argc # -1 /\ argc # Len(args)
       THEN [err |-> "ProcedureError", val |-> None]
       ELSE CASE proc.name \in ArithNames -> arith_op(proc.name, args)
              [] proc.name \in CompNames -> comp_op(proc.name, args)
              [] proc.name = s_not -> [err |-> "", val |-> builtin_not(args[1])]
              [] proc.name = s_cons -> [err |-> "", val |-> Pair(args[1], args[2])]
              [] proc.name = s_car -> builtin_car(args[1])
              [] proc.name = s_cdr -> builtin_cdr(args[1])

----------------------------------------------------------------------------
(* virtual_machine.py: Closure, Frame and the helpers of VirtualMachine.   *)

\* a Closure that keeps the environment of the built-ins, not the current one
Closure_builtins(codeobject, environment) ==
    [t |-> "Closure", codeobject |-> codeobject, environment |-> 1]

Closure(codeobject, environment) ==
    [t |-> "Closure", codeobject |-> codeobject, environment |-> environment]

Frame(codeobject, environment) ==
    [codeobject |-> codeobject, environment |-> environment,
     stack |-> <<>>, instr_pointer |-> 0]

(* _make_standard_env: the dict of the built-ins, print included (load,    *)
(* which reads a file, is left out).                                       *)
_make_standard_env ==
    Environment([name \in builtin_map \cup {s_print} |-> Procedure(name)], 0)

\* a _make_frame that makes the newest Environment the parent (dynamic scope)
_make_frame_dynamic(heap, co, arg_bindings, environment, self_frame) ==
    LET heap1 == IF environment # 0 THEN heap ELSE Append(heap, _make_standard_env)
    IN [heap |-> Append(heap1, Environment(arg_bindings, Len(heap1))),
        frame |-> Frame(co, Len(heap1) + 1)]

(* _make_frame: the parent of the new Environment is                       *)
(* environment or self.frame or self._make_standard_env().  environment is *)
(* 0 for None; self_frame is 0 when self.frame is None and otherwise the   *)
(* position of self.frame in self.frames, and the parent is then that      *)
(* Frame object (-self_frame), not an Environment.  The result is the heap *)
(* with the Environment objects created, and the Frame.                    *)
\* a _make_frame that binds the arguments in the captured Environment itself
_make_frame_shared(heap, co, arg_bindings, environment, self_frame) ==
    IF environment = 0
    THEN _make_frame_dynamic(heap, co, arg_bindings, environment, self_frame)
    ELSE [heap |-> [heap EXCEPT ![environment].binding =
                       [k \in DOMAIN @ \cup DOMAIN arg_bindings |->
                           IF k \in DOMAIN arg_bindings
                           THEN arg_bindings[k] ELSE @[k]]],
          frame |-> Frame(co, environment)]

_make_frame(heap, co, arg_bindings, environment, self_frame) ==
    LET heap1 == IF environment # 0 \/ self_frame # 0
                 THEN heap
                 ELSE Append(heap, _make_standard_env)
        parent == IF environment # 0 THEN environment
                  ELSE IF self_frame # 0 THEN -self_frame
                  ELSE Len(heap1)
    IN [heap |-> Append(heap1, Environment(arg_bindings, parent)),
        frame |-> Frame(co, Len(heap1) + 1)]

\* a binding of the parameters to the arguments taken from the last one on
RECURSIVE arg_bindings_reversed(_, _, _, _)
arg_bindings_reversed(params, args, pos, bindings) ==
    IF pos > Len(params) THEN bindings
    ELSE arg_bindings_reversed(params, args, pos + 1,
            DictSet(bindings, params[pos].value, args[Len(args) + 1 - pos]))

\* the dict PROC_CALL builds from the parameters and the arguments
RECURSIVE arg_bindings_from(_, _, _, _)
arg_bindings_from(params, args, pos, bindings) ==
    IF pos > Len(params) THEN bindings
    ELSE arg_bindings_from(params, args, pos + 1,
            DictSet(bindings, params[pos].value, args[pos]))

\* the VM's print: [err, val, line]
_builtin_print(args) ==
    IF args = <<>>
    THEN [err |-> "IndexError", val |-> None, line |-> <<>>]
    ELSE [err |-> "", val |-> Undef, line |-> ToStr(args[1])]

\* the last n values of the stack, in stack order: the popped args reversed
PoppedArgs(stack, n) == SubSeq(stack, Len(stack) - n + 1, Len(stack))
DropLast(stack, n) == SubSeq(stack, 1, Len(stack) - n)

\* an arity test that lets a call with too many arguments through
too_few_arguments(params, args) == Len(args) < Len(params)

\* PROC_CALL's arity test: len(proc.codeobject.args) != len(args)
wrong_arity(params, args) == Len(params) # Len(args)

\* JUMP_IF_FALSE's test: isinstance(cond, Boolean) and cond.value is False
vm_is_false(cond) == IsInstance(cond, "Boolean") /\ cond.value = PyFalse

----------------------------------------------------------------------------
(* interpreter.py: class Interpreter.  The state an evaluation threads is  *)
(* st = [heap, env, out]: the Environment objects, self.environment and    *)
(* the lines written.  A method's result is [st, val, err]; when it        *)
(* raises, st is the state at the raise.                                   *)

IClosure(args, body, env, name) ==
    [t |-> "IClosure", args |-> args, body |-> body, env |-> env, name |-> name]

IResult(st, val) == [st |-> st, val |-> val, err |-> ""]
IRaise(st, err) == [st |-> st, val |-> None, err |-> err]

\* _eval_if's test: isinstance(condition, Boolean) and condition.value == False
interp_is_false(condition) ==
    IsInstance(condition, "Boolean") /\ PyEq(condition.value, PyFalse)

s_anonymous_i == <<60, 97, 110, 111, 110, 121, 109, 111, 117, 115, 62>>  \* '<anonymous>'

RECURSIVE _eval(_, _, _)
RECURSIVE _eval_sequence(_, _, _)
RECURSIVE eval_args(_, _, _, _)
RECURSIVE _eval_proc_call(_, _, _)
RECURSIVE _eval_assignment(_, _, _)
RECURSIVE _eval_definition(_, _, _)
RECURSIVE _eval_if(_, _, _)
RECURSIVE _eval_cond(_, _, _)

(* [self._eval(arg) for arg in args] after its first n turns: the          *)
(* result's val is the list of the first n values, front what the turns    *)
(* before the n-th left and cur the n-th _eval.                            *)
eval_args(args, n, st, depth) ==
    LET appended(front, cur) ==
            IF cur.err # ""
            THEN cur
            ELSE IResult(cur.st, Append(front.val, cur.val))
        after(front) ==
            IF front.err # ""
            THEN front
            ELSE appended(front, _eval(args[n], front.st, depth))
    IN IF n = 0
       THEN IResult(st, <<>>)
       ELSE after(eval_args(args, n - 1, st, depth))

_eval_sequence(expressions, st, depth) ==
    LET rest(first) ==
            IF first.err # "" THEN first
            ELSE IF IsInstance(expressions.second, "Nil") THEN first
            ELSE _eval_sequence(expressions.second, first.st, depth)
    IN IF ~IsInstance(expressions, "Pair")
       THEN IRaise(st, "AttributeError")
       ELSE rest(_eval(expressions.first, st, depth))

_eval_assignment(expr, st, depth) ==
    LET name == variable_name(expr)
        stored(val, r) ==
            IF r.err # ""
            THEN IRaise(val.st, r.err)
            ELSE IResult([val.st EXCEPT !.heap = r.heap], None)
        assigned(val) ==
            IF val.err # ""
            THEN val
            ELSE stored(val, set_var(val.st.heap, val.st.env,
                                     name.value, val.val))
    IN assigned(_eval(variable_value(expr), st, depth))

\* lambda_parameters reads expr.second.first: AttributeError on (lambda)
_eval_lambda(expr, st) ==
    IF ~IsInstance(expr.second, "Pair")
    THEN IRaise(st, "AttributeError")
    ELSE IResult(st, IClosure(expand_nested_pairs(lambda_parameters(expr)),
                              lambda_body(expr), st.env, Str(<<>>)))

_eval_definition(expr, st, depth) ==
    LET var == definition_variable(expr)
        named(val) ==
            IF IsInstance(val.val, "IClosure")
            THEN [val.val EXCEPT !.name =
                    IF var.value # <<>> THEN Str(var.value) ELSE Str(s_anonymous_i)]
            ELSE val.val
        defined(val) ==
            IF val.err # ""
            THEN val
            ELSE IResult([val.st EXCEPT !.heap =
                            define_var(val.st.heap, val.st.env, var.value,
                                       named(val))],
                         None)
        \* the attributes definition_value reads exist
        readable ==
            /\ IsInstance(expr.second, "Pair")
            /\ IF IsInstance(expr.second.first, "Symbol")
               THEN IsInstance(expr.second.second, "Pair")
               ELSE IsInstance(expr.second.first, "Pair")
    IN IF readable
       THEN defined(_eval(definition_value(expr), st, depth))
       ELSE IRaise(st, "AttributeError")

_eval_if(expr, st, depth) ==
    LET branch(condition) ==
            IF condition.err # "" THEN condition
            ELSE IF interp_is_false(condition.val)
            THEN IF Len(expand_nested_pairs(expr)) >= 4
                 THEN _eval(if_else(expr), condition.st, depth)
                 ELSE IResult(condition.st, None)
            ELSE IF ~IsInstance(expr.second.second, "Pair")
            THEN IRaise(condition.st, "AttributeError")
            ELSE _eval(if_then(expr), condition.st, depth)
    IN branch(_eval(if_cond(expr), st, depth))

\* the Interpreter's print: writes str(args[0]) and returns None
interp_builtin_print(args, st) ==
    IF args = <<>>
    THEN IRaise(st, "IndexError")
    ELSE IResult([st EXCEPT !.out = Append(@, ToStr(args[1]))], None)

_eval_proc_call(expr, st, depth) ==
    LET arg_exprs == expand_nested_pairs(procedure_args(expr))
        returned(curr_environment, retval) ==
            IF retval.err # ""
            THEN retval
            ELSE IResult([retval.st EXCEPT !.env = curr_environment],
                         retval.val)
        entered(proc, heap1) ==
            returned(proc.st.env,
                     _eval_sequence(proc.val.body,
                         [proc.st EXCEPT !.heap = heap1, !.env = Len(heap1)],
                         depth + 1))
        applied(proc, retval) ==
            IF retval.err # ""
            THEN IRaise(proc.st, retval.err)
            ELSE IResult(proc.st, retval.val)
        called(args, proc) ==
            CASE proc.err # "" -> proc
              [] proc.err = "" /\ IsInstance(proc.val, "Procedure")
                               /\ proc.val.name = s_print ->
                   interp_builtin_print(args.val, proc.st)
              [] proc.err = "" /\ IsInstance(proc.val, "Procedure")
                               /\ proc.val.name # s_print ->
                   applied(proc, apply(proc.val, args.val))
              [] proc.err = "" /\ IsInstance(proc.val, "IClosure")
                               /\ Len(proc.val.args) # Len(args.val) ->
                   IRaise(proc.st, "InterpreterError")
              [] proc.err = "" /\ IsInstance(proc.val, "IClosure")
                               /\ Len(proc.val.args) = Len(args.val)
                               /\ depth >= MaxFrames ->
                   IRaise(proc.st, "RecursionError")
              [] proc.err = "" /\ IsInstance(proc.val, "IClosure")
                               /\ Len(proc.val.args) = Len(args.val)
                               /\ depth < MaxFrames ->
                   entered(proc,
                           Append(proc.st.heap,
                                  Environment(
                                    arg_bindings_from(proc.val.args, args.val,
                                                      1, <<>>),
                                    proc.val.env)))
              [] proc.err = "" /\ ~IsInstance(proc.val, "Procedure")
                               /\ ~IsInstance(proc.val, "IClosure") ->
                   IRaise(proc.st, "InterpreterError")
        with_args(args) ==
            IF args.err # ""
            THEN args
            ELSE called(args, _eval(procedure_op(expr), args.st, depth))
    IN with_args(eval_args(arg_exprs, Len(arg_exprs), st, depth))

_eval_variable(expr, st) ==
    LET r == lookup_var(st.heap, st.env, expr.value)
    IN IF r.err # "" THEN IRaise(st, r.err) ELSE IResult(st, r.val)

_eval_cond(expr, st, depth) ==
    LET evaluated(ifs) ==
            IF ifs.err # ""
            THEN IRaise(st, ifs.err)
            ELSE _eval(ifs.expr, st, depth)
    IN evaluated(make_ifs_from_cond(cond_clauses(expr)))

_eval(expr, st, depth) ==
    CASE Branch(expr) \in {"null", "const"} -> IResult(st, expr)
      [] Branch(expr) = "variable" -> _eval_variable(expr, st)
      [] Branch(expr) = "AttributeError" -> IRaise(st, "AttributeError")
      [] Branch(expr) = "quoted" -> IResult(st, quoted_text(expr))
      [] Branch(expr) = "assignment" -> _eval_assignment(expr, st, depth)
      [] Branch(expr) = "lambda" -> _eval_lambda(expr, st)
      [] Branch(expr) = "begin" -> _eval_sequence(begin_body(expr), st, depth)
      [] Branch(expr) = "definition" -> _eval_definition(expr, st, depth)
      [] Branch(expr) = "if" -> _eval_if(expr, st, depth)
      [] Branch(expr) = "cond" -> _eval_cond(expr, st, depth)
      [] Branch(expr) = "let" -> _eval(make_let_into_lambda(expr), st, depth)
      [] Branch(expr) = "proc_call" -> _eval_proc_call(expr, st, depth)
      [] Branch(expr) = "unknown" -> IRaise(st, "InterpreterError")

----------------------------------------------------------------------------
(* virtual_machine.py: the steps of VirtualMachine.  frames is             *)
(* self.frames (self.frame is its last element), envs the Environment      *)
(* objects, output the lines written to the output stream.  pc is the      *)
(* phase of the run; an exception of the VM is recorded in vmerr and ends  *)
(* the phase with the frames as they are at the raise.                     *)

Top == frames[frame]
Running == pc = "vm" /\ frame # 0
HasInstr == Top.instr_pointer < Len(Top.codeobject.code)
CurInstr == Top.codeobject.code[Top.instr_pointer + 1]
At(opcode) == Running /\ HasInstr /\ CurInstr.opcode = opcode

\* self.frame after _get_next_instruction
Fetched == [Top EXCEPT !.instr_pointer = @ + 1]

SetTop(top) == [frames EXCEPT ![frame] = top]

\* an exception leaves _run_instruction
Raise(top, err) ==
    /\ frames' = SetTop(top)
    /\ vmerr' = err
    /\ pc' = "interp"

\* the position in self.frames of the frame that the running run_code pushed
RootDepth == IF last = None THEN 1 ELSE last.root

(* _pop_frame and the return of _run_frame: the caller of the root frame   *)
(* is run_code, the caller of any other is the PROC_CALL branch, which     *)
(* appends the value to the stack of the frame that is current again.      *)
Unwind(value) ==
    LET rest == SubSeq(frames, 1, Len(frames) - 1)
    IN /\ frame' = Len(rest)
       /\ IF Len(frames) = RootDepth
          THEN frames' = rest /\ pc' = "interp"
          ELSE /\ frames' = [rest EXCEPT ![Len(rest)].stack = Append(@, value)]
               /\ pc' = pc

Compile ==
    /\ pc = "compile"
    /\ \E r \in {compile(prog)} :
          IF r.err # ""
          THEN vmerr' = r.err /\ pc' = "interp" /\ code' = code
          ELSE code' = r.co /\ pc' = "run" /\ vmerr' = vmerr
    /\ UNCHANGED <<lexer, frame, prog, frames, envs, return_value, output, ienvs, ienv,
                   ipos, iout, ierr, bytes, sererr, decoded, last>>

RunCode ==
    /\ pc = "run"
    /\ LET made == _make_frame(envs, code, <<>>, 0, Len(frames))
       IN /\ envs' = made.heap
          /\ frames' = Append(frames, made.frame)
          /\ frame' = Len(frames) + 1
    /\ pc' = "vm"
    /\ UNCHANGED <<lexer, prog, code, return_value, output, vmerr, ienvs, ienv,
                   ipos, iout, ierr, bytes, sererr, decoded, last>>

\* (define (f) 1) (f)
ProgAgain ==
    <<make_nested_pairs_from_seq(
          <<Symbol(s_define), make_nested_pairs_from_seq(<<Symbol(s_f)>>),
            Number(1)>>),
      make_nested_pairs_from_seq(<<Symbol(s_f)>>)>>

(* A second run_code on the same VirtualMachine, after the first has       *)
(* returned or has raised, of the same code object or of the code object   *)
(* of ProgAgain: self.frames and self.frame are as the first run left      *)
(* them.                                                                   *)
RunCodeAgain ==
    /\ pc = "interp"
    /\ code # None
    /\ last = None
    /\ \E again \in {code, compile(ProgAgain).co} :
       \E made \in {_make_frame(envs, again, <<>>, 0, Len(frames))} :
          /\ envs' = made.heap
          /\ frames' = Append(frames, made.frame)
          /\ frame' = Len(frames) + 1
    /\ last' = [op |-> "run_code", root |-> Len(frames) + 1, raised |-> vmerr]
    /\ vmerr' = ""
    /\ pc' = "vm"
    /\ UNCHANGED <<lexer, prog, code, return_value, output, ienvs, ienv, ipos, iout,
                   ierr, bytes, sererr, decoded>>

LoadConst ==
    /\ At(OP_LOAD_CONST)
    /\ frames' = SetTop([Fetched EXCEPT !.stack =
                    Append(@, Top.codeobject.constants[CurInstr.arg.value + 1])])
    /\ UNCHANGED <<lexer, frame, prog, pc, code, envs, return_value, output, vmerr, ienvs,
                   ienv, ipos, iout, ierr, bytes, sererr, decoded, last>>

LoadVar ==
    /\ At(OP_LOAD_VAR)
    /\ LET varname == Top.codeobject.varnames[CurInstr.arg.value + 1]
           val == lookup_var(envs, Top.environment, varname.value)
       IN IF val.err # ""
          THEN Raise(Fetched, val.err)
          ELSE /\ frames' = SetTop([Fetched EXCEPT !.stack = Append(@, val.val)])
               /\ UNCHANGED <<pc, vmerr>>
    /\ UNCHANGED <<lexer, frame, prog, code, envs, return_value, output, ienvs, ienv, ipos,
                   iout, ierr, bytes, sererr, decoded, last>>

SetVar ==
    /\ At(OP_SET_VAR)
    /\ LET varname == Top.codeobject.varnames[CurInstr.arg.value + 1]
           stack == Top.stack
           popped == [Fetched EXCEPT !.stack = DropLast(stack, 1)]
           r == set_var(envs, Top.environment, varname.value, stack[Len(stack)])
       IN IF stack = <<>>
          THEN Raise(Fetched, "IndexError") /\ envs' = envs
          ELSE IF r.err # ""
          THEN Raise(popped, r.err) /\ envs' = envs
          ELSE /\ frames' = SetTop(popped)
               /\ envs' = r.heap
               /\ UNCHANGED <<pc, vmerr>>
    /\ UNCHANGED <<lexer, frame, prog, code, return_value, output, ienvs, ienv, ipos, iout,
                   ierr, bytes, sererr, decoded, last>>

DefVar ==
    /\ At(OP_DEF_VAR)
    /\ LET varname == Top.codeobject.varnames[CurInstr.arg.value + 1]
           stack == Top.stack
       IN IF stack = <<>>
          THEN Raise(Fetched, "IndexError") /\ envs' = envs
          ELSE /\ frames' = SetTop([Fetched EXCEPT !.stack = DropLast(stack, 1)])
               /\ envs' = define_var(envs, Top.environment, varname.value,
                                     stack[Len(stack)])
               /\ UNCHANGED <<pc, vmerr>>
    /\ UNCHANGED <<lexer, frame, prog, code, return_value, output, ienvs, ienv, ipos, iout,
                   ierr, bytes, sererr, decoded, last>>

DefFunc ==
    /\ At(OP_DEF_FUNC)
    /\ LET codeobject == Top.codeobject.constants[CurInstr.arg.value + 1]
       IN frames' = SetTop([Fetched EXCEPT !.stack =
                       Append(@, Closure(codeobject, Top.environment))])
    /\ UNCHANGED <<lexer, frame, prog, pc, code, envs, return_value, output, vmerr, ienvs,
                   ienv, ipos, iout, ierr, bytes, sererr, decoded, last>>

ProcCall ==
    /\ At(OP_PROC_CALL)
    /\ LET stack == Top.stack
           n == CurInstr.arg.value
           proc == stack[Len(stack)]
           args == PoppedArgs(DropLast(stack, 1), n)
           popped == [Fetched EXCEPT !.stack = DropLast(stack, n + 1)]
       IN IF Len(stack) < n + 1
          THEN /\ Raise([Fetched EXCEPT !.stack = <<>>], "IndexError")
               /\ UNCHANGED <<envs, output, frame>>
          ELSE IF IsInstance(proc, "Procedure")
          THEN LET retval == IF proc.name = s_print
                             THEN _builtin_print(args)
                             ELSE apply(proc, args) @@ [line |-> <<>>]
               IN IF retval.err # ""
                  THEN Raise(popped, retval.err) /\ UNCHANGED <<envs, output, frame>>
                  ELSE /\ frames' = SetTop([popped EXCEPT !.stack =
                                                Append(@, retval.val)])
                       /\ output' = IF proc.name = s_print
                                    THEN Append(output, retval.line)
                                    ELSE output
                       /\ UNCHANGED <<envs, pc, vmerr, frame>>
          ELSE IF IsInstance(proc, "Closure")
          THEN IF wrong_arity(proc.codeobject.args, args)
               THEN /\ Raise(popped, "VirtualMachineError")
                    /\ UNCHANGED <<envs, output, frame>>
               ELSE LET arg_bindings ==
                            arg_bindings_from(proc.codeobject.args, args, 1, <<>>)
                        made == _make_frame(envs, proc.codeobject, arg_bindings,
                                            proc.environment, Len(frames))
                    IN /\ Len(frames) < MaxFrames
                       /\ frames' = Append(SetTop(popped), made.frame)
                       /\ frame' = Len(frames) + 1
                       /\ envs' = made.heap
                       /\ UNCHANGED <<pc, vmerr, output>>
          ELSE /\ Raise(popped, "VirtualMachineError")
               /\ UNCHANGED <<envs, output, frame>>
    /\ UNCHANGED <<lexer, prog, code, return_value, ienvs, ienv, ipos, iout, ierr,
                   bytes, sererr, decoded, last>>

JumpIfFalse ==
    /\ At(OP_JUMP_IF_FALSE)
    /\ LET stack == Top.stack
           cond == stack[Len(stack)]
       IN IF stack = <<>>
          THEN Raise(Fetched, "IndexError")
          ELSE /\ frames' = SetTop(
                     [Fetched EXCEPT
                        !.stack = DropLast(stack, 1),
                        !.instr_pointer = IF vm_is_false(cond)
                                          THEN CurInstr.arg.value
                                          ELSE @])
               /\ UNCHANGED <<pc, vmerr>>
    /\ UNCHANGED <<lexer, frame, prog, code, envs, return_value, output, ienvs, ienv, ipos,
                   iout, ierr, bytes, sererr, decoded, last>>

Jump ==
    /\ At(OP_JUMP)
    /\ frames' = SetTop([Fetched EXCEPT !.instr_pointer = CurInstr.arg.value])
    /\ UNCHANGED <<lexer, frame, prog, pc, code, envs, return_value, output, vmerr, ienvs,
                   ienv, ipos, iout, ierr, bytes, sererr, decoded, last>>

Return ==
    /\ At(OP_RETURN)
    /\ LET stack == Top.stack
           value == IF stack # <<>> THEN stack[Len(stack)] ELSE return_value
       IN return_value' = value /\ Unwind(value)
    /\ UNCHANGED <<lexer, prog, code, envs, output, vmerr, ienvs, ienv, ipos, iout,
                   ierr, bytes, sererr, decoded, last>>

Pop ==
    /\ At(OP_POP)
    /\ frames' = SetTop([Fetched EXCEPT !.stack =
                    IF @ # <<>> THEN DropLast(@, 1) ELSE @])
    /\ UNCHANGED <<lexer, frame, prog, pc, code, envs, return_value, output, vmerr, ienvs,
                   ienv, ipos, iout, ierr, bytes, sererr, decoded, last>>

\* _get_next_instruction returned None: the loop of _run_frame ends
FrameEnd ==
    /\ Running /\ ~HasInstr
    /\ Unwind(return_value)
    /\ UNCHANGED <<lexer, prog, code, envs, return_value, output, vmerr, ienvs, ienv,
                   ipos, iout, ierr, bytes, sererr, decoded, last>>

----------------------------------------------------------------------------
(* interpreter.py: interpret_expressions, one top-level expression a step. *)

InterpForm ==
    /\ pc = "interp" /\ ierr = "" /\ ipos < Len(prog)
    /\ \E r \in {_eval(prog[ipos + 1],
                      [heap |-> ienvs, env |-> ienv, out |-> iout], 0)} :
          /\ ienvs' = r.st.heap
          /\ ienv' = r.st.env
          /\ iout' = r.st.out
          /\ ierr' = r.err
    /\ ipos' = ipos + 1
    /\ UNCHANGED <<lexer, frame, prog, pc, code, frames, envs, return_value, output, vmerr,
                   bytes, sererr, decoded, last>>

InterpEnd ==
    /\ pc = "interp" /\ (ierr # "" \/ ipos = Len(prog))
    /\ pc' = "done"
    /\ UNCHANGED <<lexer, frame, prog, code, frames, envs, return_value, output, vmerr,
                   ienvs, ienv, ipos, iout, ierr, bytes, sererr, decoded, last>>

----------------------------------------------------------------------------
(* _parser.py: the expressions the parser builds.  A program is the list   *)
(* Parser.parse returns, one expression per top-level form.                *)

\* _list: nested Pairs ended by Nil()
List(datums) == make_nested_pairs_from_seq(datums)

\* _abbreviation: Pair(Symbol('quote'), Pair(datum, None))
Quote(datum) == Pair(Symbol(s_quote), Pair(datum, None))

Nums == 0..MaxNum

\* (define (name params...) body)
DefineProc(name, params, body) ==
    List(<<Symbol(s_define), List(<<Symbol(name)>> \o params), body>>)

Call1(op, a) == List(<<Symbol(op), a>>)
Call2(op, a, b) == List(<<Symbol(op), a, b>>)
PrintOf(e) == Call1(s_print, e)

\* (print (if (= a) 1 2))
ProgIfEq(a) ==
    <<PrintOf(List(<<Symbol(s_if), Call1(s_eq, Number(a)), Number(1), Number(2)>>))>>

\* (define x a) (define (f) x) (define (g) (define x b) (f)) (print (g))
ProgScope(a, b) ==
    <<List(<<Symbol(s_define), Symbol(s_x), Number(a)>>),
      DefineProc(s_f, <<>>, Symbol(s_x)),
      List(<<Symbol(s_define), List(<<Symbol(s_g)>>),
             List(<<Symbol(s_define), Symbol(s_x), Number(b)>>),
             List(<<Symbol(s_f)>>)>>),
      PrintOf(List(<<Symbol(s_g)>>))>>

\* (define x a) (define (f) x) (define x b) (print (f))
ProgRedefine(a, b) ==
    <<List(<<Symbol(s_define), Symbol(s_x), Number(a)>>),
      DefineProc(s_f, <<>>, Symbol(s_x)),
      List(<<Symbol(s_define), Symbol(s_x), Number(b)>>),
      PrintOf(List(<<Symbol(s_f)>>))>>

\* (define x a) (define (f) (set! x b)) (f) (print x)
ProgSet(a, b) ==
    <<List(<<Symbol(s_define), Symbol(s_x), Number(a)>>),
      DefineProc(s_f, <<>>, List(<<Symbol(s_set), Symbol(s_x), Number(b)>>)),
      List(<<Symbol(s_f)>>),
      PrintOf(Symbol(s_x))>>

\* (define (g a b) (print a) (print b)) (define (f a b) 0)
\* (f a (g b (begin (define x 2) 3)))
ProgArgs(a, b) ==
    <<List(<<Symbol(s_define), List(<<Symbol(s_g), Symbol(s_a), Symbol(s_b)>>),
             PrintOf(Symbol(s_a)), PrintOf(Symbol(s_b))>>),
      DefineProc(s_f, <<Symbol(s_a), Symbol(s_b)>>, Number(0)),
      Call2(s_f, Number(a),
            Call2(s_g, Number(b),
                  List(<<Symbol(s_begin),
                         List(<<Symbol(s_define), Symbol(s_x), Number(2)>>),
                         Number(3)>>)))>>

\* (define (g a b) (print a) (print b)) (g a (+ b 1))
ProgOrder(a, b) ==
    <<List(<<Symbol(s_define), List(<<Symbol(s_g), Symbol(s_a), Symbol(s_b)>>),
             PrintOf(Symbol(s_a)), PrintOf(Symbol(s_b))>>),
      Call2(s_g, Number(a), Call2(s_plus, Number(b), Number(1)))>>

\* (define (f n) (if (= n 0) 1 (* n (f (- n 1))))) (print (f a))
ProgFact(a) ==
    <<DefineProc(s_f, <<Symbol(s_n)>>,
        List(<<Symbol(s_if), Call2(s_eq, Symbol(s_n), Number(0)), Number(1),
               Call2(s_times, Symbol(s_n),
                     Call1(s_f, Call2(s_minus, Symbol(s_n), Number(1))))>>)),
      PrintOf(Call1(s_f, Number(a)))>>

\* (define (g n) (lambda (x) (+ x n))) (define h (g a)) (print (h b))
ProgAdder(a, b) ==
    <<DefineProc(s_g, <<Symbol(s_n)>>,
        List(<<Symbol(s_lambda), List(<<Symbol(s_x)>>),
               Call2(s_plus, Symbol(s_x), Symbol(s_n))>>)),
      List(<<Symbol(s_define), Symbol(s_h), Call1(s_g, Number(a))>>),
      PrintOf(Call1(s_h, Number(b)))>>

\* (let ((x a) (y b)) (print (+ x y)))
ProgLet(a, b) ==
    <<List(<<Symbol(s_let),
             List(<<List(<<Symbol(s_x), Number(a)>>),
                    List(<<Symbol(s_y), Number(b)>>)>>),
             PrintOf(Call2(s_plus, Symbol(s_x), Symbol(s_y)))>>)>>

\* (cond ((< a b) (print 1)) (else (print 2)))
ProgCond(a, b) ==
    <<List(<<Symbol(s_cond),
             List(<<Call2(s_lt, Number(a), Number(b)), PrintOf(Number(1))>>),
             List(<<Symbol(s_else), PrintOf(Number(2))>>)>>)>>

\* (print (cdr (cons a 'b))) (print (car '(a b))) (print (not (> a b)))
ProgData(a, b) ==
    <<PrintOf(Call1(s_cdr, Call2(s_cons, Number(a), Quote(Symbol(s_b))))),
      PrintOf(Call1(s_car, Quote(List(<<Symbol(s_a), Number(b)>>)))),
      PrintOf(Call1(s_not, Call2(s_gt, Number(a), Number(b))))>>

\* (print (if #f a b)) (print (if (not #f) a b)) (print (- a b))
ProgIf(a, b) ==
    <<PrintOf(List(<<Symbol(s_if), Boolean(PyFalse), Number(a), Number(b)>>)),
      PrintOf(List(<<Symbol(s_if), Call1(s_not, Boolean(PyFalse)),
                     Number(a), Number(b)>>)),
      PrintOf(Call2(s_minus, Number(a), Number(b)))>>

\* (define (f p1 ... pa) 0) (print (f 1 ... b)): a parameters, b arguments
ParamNames == <<s_a, s_b, s_x, s_y>>
ProgArity(a, b) ==
    <<DefineProc(s_f, [i \in 1..a |-> Symbol(ParamNames[i])], Number(0)),
      PrintOf(List(<<Symbol(s_f)>> \o [i \in 1..b |-> Number(i)]))>>

\* (define x a) (let ((x b) (y x)) (print x) (print y)) (print x) (print y)
ProgLetScope(a, b) ==
    <<List(<<Symbol(s_define), Symbol(s_x), Number(a)>>),
      List(<<Symbol(s_let),
             List(<<List(<<Symbol(s_x), Number(b)>>),
                    List(<<Symbol(s_y), Symbol(s_x)>>)>>),
             PrintOf(Symbol(s_x)), PrintOf(Symbol(s_y))>>),
      PrintOf(Symbol(s_x)),
      PrintOf(Symbol(s_y))>>

\* ((lambda (x y) (print (+ x y))) a b)
ProgLambdaApplied(a, b) ==
    <<List(<<List(<<Symbol(s_lambda), List(<<Symbol(s_x), Symbol(s_y)>>),
                    PrintOf(Call2(s_plus, Symbol(s_x), Symbol(s_y)))>>),
             Number(a), Number(b)>>)>>

\* (let ((x 3) (y 4)) (print (+ x y)))
ProgLetExample == ProgLet(3, 4)

(* (print (cond clause_1 ... clause_n)); kinds[i] makes clause i           *)
(*   ((begin (print i) v) (print 10+i) 20+i)  with v = #f, #t or 0, or     *)
(*   (else (print 10+i) 20+i).                                             *)
CondKinds == {"f", "t", "n", "else"}
CondShapes == UNION {[1..n -> CondKinds] : n \in 0..MaxClauses}

CondTest(kind, i) ==
    IF kind = "else"
    THEN Symbol(s_else)
    ELSE List(<<Symbol(s_begin), PrintOf(Number(i)),
                CASE kind = "f" -> Boolean(PyFalse)
                  [] kind = "t" -> Boolean(PyTrue)
                  [] kind = "n" -> Number(0)>>)

ProgCondChain(kinds) ==
    <<PrintOf(List(<<Symbol(s_cond)>> \o
                   [i \in 1..Len(kinds) |->
                       List(<<CondTest(kinds[i], i), PrintOf(Number(10 + i)),
                              Number(20 + i)>>)]))>>

\* (print (name a b c)) for a comparison name
ProgComp(name, a, b, c) ==
    <<PrintOf(List(<<Symbol(name), Number(a), Number(b), Number(c)>>))>>

(* (print (+ 1 (if (begin (print 0) c) t e))): c is #t, #f, 0 or (= 0);  *)
(* t and e are made by their kinds from a leaf (begin (print k) k):        *)
(*   "leaf"   (begin (print k) k)                                          *)
(*   "if"     (if c2 leaf(k+2) leaf(k+4))                                  *)
(*   "lambda" ((lambda () (if c2 leaf(k+2) leaf(k+4))))                    *)
(*   "define" (define x k)                                                 *)
(* with k = 1 in t and k = 2 in e.                                         *)
IfConds == {"t", "f", "zero", "eq"}
IfBranches == {"leaf", "if", "lambda", "define"}

IfCond(c) ==
    CASE c = "t" -> Boolean(PyTrue)
      [] c = "f" -> Boolean(PyFalse)
      [] c = "zero" -> Number(0)
      [] c = "eq" -> Call1(s_eq, Number(0))

IfLeaf(k) == List(<<Symbol(s_begin), PrintOf(Number(k)), Number(k)>>)

IfBranch(kind, c2, k) ==
    LET inner == List(<<Symbol(s_if), IfCond(c2), IfLeaf(k + 2), IfLeaf(k + 4)>>)
    IN CASE kind = "leaf" -> IfLeaf(k)
         [] kind = "if" -> inner
         [] kind = "lambda" ->
              List(<<List(<<Symbol(s_lambda), List(<<>>), inner>>)>>)
         [] kind = "define" ->
              List(<<Symbol(s_define), Symbol(s_x), Number(k)>>)

ProgIfLowering(c, tk, ek, c2) ==
    <<PrintOf(Call2(s_plus, Number(1),
        List(<<Symbol(s_if),
               List(<<Symbol(s_begin), PrintOf(Number(0)), IfCond(c)>>),
               IfBranch(tk, c2, 1), IfBranch(ek, c2, 2)>>)))>>

(* (print l1) (print l2) (print l1) (print '(1)) (print '(1))             *)
(* ((lambda (x) (print l2) (print l1) (print l2) x) l1)                    *)
(* for literals l1, l2 among 0, 1, #t, #f, 'x and '()                      *)
LiteralKinds == {"0", "1", "t", "f", "x", "nil"}

Literal(kind) ==
    CASE kind = "0" -> Number(0)
      [] kind = "1" -> Number(1)
      [] kind = "t" -> Boolean(PyTrue)
      [] kind = "f" -> Boolean(PyFalse)
      [] kind = "x" -> Quote(Symbol(s_x))
      [] kind = "nil" -> Quote(Nil)

ProgLiterals(l1, l2) ==
    <<PrintOf(Literal(l1)), PrintOf(Literal(l2)), PrintOf(Literal(l1)),
      PrintOf(Quote(List(<<Number(1)>>))), PrintOf(Quote(List(<<Number(1)>>))),
      List(<<List(<<Symbol(s_lambda), List(<<Symbol(s_x)>>),
                    PrintOf(Literal(l2)), PrintOf(Literal(l1)),
                    PrintOf(Literal(l2)), Symbol(s_x)>>),
             Literal(l1)>>)>>

\* (define (f) a) (define (g) (define y b)) (f) (print (g))
ProgStale(a, b) ==
    <<DefineProc(s_f, <<>>, Number(a)),
      DefineProc(s_g, <<>>, List(<<Symbol(s_define), Symbol(s_y), Number(b)>>)),
      List(<<Symbol(s_f)>>),
      PrintOf(List(<<Symbol(s_g)>>))>>

\* (print (+ a (begin (define x b) 3)))
ProgBeginOperand(a, b) ==
    <<PrintOf(Call2(s_plus, Number(a),
        List(<<Symbol(s_begin),
               List(<<Symbol(s_define), Symbol(s_x), Number(b)>>),
               Number(3)>>)))>>

\* (define (f n) (if (= n 0) 0 (+ (f (- n 1)) n))) (print (f a))
ProgSum(a) ==
    <<DefineProc(s_f, <<Symbol(s_n)>>,
        List(<<Symbol(s_if), Call2(s_eq, Symbol(s_n), Number(0)), Number(0),
               Call2(s_plus,
                     Call1(s_f, Call2(s_minus, Symbol(s_n), Number(1))),
                     Symbol(s_n))>>)),
      PrintOf(Call1(s_f, Number(a)))>>

(* (define (g n) (lambda (x) (+ x n))) (define f (g a)) (define h (g b))   *)
(* (print (f 0)) (print (h 0))                                             *)
ProgTwoAdders(a, b) ==
    <<DefineProc(s_g, <<Symbol(s_n)>>,
        List(<<Symbol(s_lambda), List(<<Symbol(s_x)>>),
               Call2(s_plus, Symbol(s_x), Symbol(s_n))>>)),
      List(<<Symbol(s_define), Symbol(s_f), Call1(s_g, Number(a))>>),
      List(<<Symbol(s_define), Symbol(s_h), Call1(s_g, Number(b))>>),
      PrintOf(Call1(s_f, Number(0))),
      PrintOf(Call1(s_h, Number(0)))>>

\* (define (g) y) (define (f) (car a)) (f) (define y b) (print (g)) (print y)
ProgFailingCall(a, b) ==
    <<DefineProc(s_g, <<>>, Symbol(s_y)),
      DefineProc(s_f, <<>>, Call1(s_car, Number(a))),
      List(<<Symbol(s_f)>>),
      List(<<Symbol(s_define), Symbol(s_y), Number(b)>>),
      PrintOf(List(<<Symbol(s_g)>>)),
      PrintOf(Symbol(s_y))>>

\* (define (f) (f)) (f): a call that never returns
ProgLoop ==
    <<DefineProc(s_f, <<>>, List(<<Symbol(s_f)>>)), List(<<Symbol(s_f)>>)>>

\* (lambda), (lambda (1) 1), (define x) and (if #t 1)
ProgMalformed ==
    { <<List(<<Symbol(s_lambda)>>)>>,
      <<List(<<Symbol(s_lambda), List(<<Number(1)>>), Number(1)>>)>>,
      <<List(<<Symbol(s_define), Symbol(s_x)>>)>>,
      <<List(<<Symbol(s_if), Boolean(PyTrue), Number(1)>>)>> }

ProgErrors ==
    { <<PrintOf(Symbol(s_y))>>,                                \* (print y)
      <<List(<<Symbol(s_set), Symbol(s_y), Number(1)>>)>>,     \* (set! y 1)
      <<List(<<Number(1)>>)>>,                                 \* (1)
      <<DefineProc(s_f, <<Symbol(s_a)>>, Symbol(s_a)),
        List(<<Symbol(s_f)>>)>>,                               \* (define (f a) a) (f)
      <<Call1(s_car, Number(1))>>,                             \* (car 1)
      <<PrintOf(PrintOf(Number(1)))>>,                         \* (print (print 1))
      <<PrintOf(Number(-1))>>,                                 \* (print -1)
      <<PrintOf(List(<<Symbol(s_if), Boolean(PyFalse),         \* (print (if #f 1))
                       Number(1)>>))>>,
      <<PrintOf(Quote(Quote(Symbol(s_x))))>>,                  \* (print ''x)
      <<PrintOf(Call2(s_plus, Number(1),                       \* (print (+ 1 (begin
          List(<<Symbol(s_begin),                              \*    (define x 2) 3)))
                 List(<<Symbol(s_define), Symbol(s_x), Number(2)>>),
                 Number(3)>>)))>> }

Programs ==
    {ProgIfEq(a) : a \in Nums}
      \cup UNION {{ProgScope(a, b), ProgRedefine(a, b), ProgSet(a, b),
                   ProgArgs(a, b), ProgOrder(a, b), ProgAdder(a, b),
                   ProgLet(a, b), ProgCond(a, b), ProgData(a, b),
                   ProgIf(a, b), ProgArity(a, b), ProgStale(a, b),
                   ProgBeginOperand(a, b), ProgTwoAdders(a, b),
                   ProgFailingCall(a, b)} : a \in Nums, b \in Nums}
      \cup {ProgFact(a) : a \in Nums}
      \cup {ProgSum(a) : a \in Nums}
      \cup {ProgComp(name, a, b, c) : name \in CompNames, a, b, c \in Nums}
      \cup {ProgCondChain(kinds) : kinds \in CondShapes}
      \cup {ProgLetScope(a, b) : a, b \in Nums}
      \cup {ProgLetExample, ProgLoop}
      \cup {ProgIfLowering(c, tk, ek, c2) :
                c \in IfConds, tk \in IfBranches, ek \in IfBranches,
                c2 \in {"t", "f"}}
      \cup {ProgLiterals(l1, l2) : l1 \in LiteralKinds, l2 \in LiteralKinds}
      \cup ProgMalformed
      \cup ProgErrors

----------------------------------------------------------------------------
(* The run of one program: compiled and run by the VM (run_code), then     *)
(* interpreted (interpret_expressions).                                    *)

interp_standard_env ==
    Environment([name \in builtin_map \cup {s_print} |-> Procedure(name)], 0)

Init ==
    /\ prog \in Programs
    /\ pc = "compile"
    /\ code = None
    /\ frames = <<>>
    /\ frame = 0
    /\ envs = <<>>
    /\ return_value = None
    /\ output = <<>>
    /\ vmerr = ""
    /\ ienvs = <<interp_standard_env>>
    /\ ienv = 1
    /\ ipos = 0
    /\ iout = <<>>
    /\ ierr = ""
    /\ bytes = <<>>
    /\ sererr = ""
    /\ decoded = None
    /\ lexer = None
    /\ last = None

Next ==
    \/ Compile
    \/ RunCode
    \/ LoadConst
    \/ LoadVar
    \/ SetVar
    \/ DefVar
    \/ DefFunc
    \/ ProcCall
    \/ JumpIfFalse
    \/ Jump
    \/ Return
    \/ Pop
    \/ FrameEnd
    \/ InterpForm
    \/ InterpEnd

Spec == Init /\ [][Next]_vars

(* One VirtualMachine given the same code object twice.                    *)
NextReuse ==
    \/ Compile
    \/ RunCode
    \/ RunCodeAgain
    \/ LoadConst
    \/ LoadVar
    \/ SetVar
    \/ DefVar
    \/ DefFunc
    \/ ProcCall
    \/ JumpIfFalse
    \/ Jump
    \/ Return
    \/ Pop
    \/ FrameEnd

SpecReuse == Init /\ [][NextReuse]_vars

----------------------------------------------------------------------------
(* Properties of the run of a program.                                     *)

VarNames == {s_x, s_y, s_f, s_g, s_h, s_a, s_b, s_n}

\* the step is a PROC_CALL that pushed the frame of a closure
ClosureCalled == At(OP_PROC_CALL) /\ Len(frames') = Len(frames) + 1
Callee == Top.stack[Len(Top.stack)]
NewFrame == frames'[Len(frames')]

\* the Environment objects that can reach self through parent_env, self included
OnChain(heap, self, env) == \E i \in 1..Len(Chain(heap, env)) : Chain(heap, env)[i] = self

(* C1: lexical scoping.  When PROC_CALL calls a closure, the parent of the  *)
(* new frame's environment is the environment the closure captured, so a   *)
(* free variable of the body resolves as it does in the captured           *)
(* environment and never through the caller's frame; and a DEF_VAR in an   *)
(* environment that is not on the chain of an environment E leaves every   *)
(* lookup from E as it was.                                                *)
C1_LexicalScoping ==
    [][/\ ClosureCalled =>
            /\ envs'[NewFrame.environment].parent_env = Callee.environment
            /\ \A name \in VarNames \ DOMAIN envs'[NewFrame.environment].binding :
                   lookup_var(envs', NewFrame.environment, name)
                       = lookup_var(envs, Callee.environment, name)
       /\ (At(OP_DEF_VAR) /\ Top.stack # <<>>) =>
            \A e \in 1..Len(envs) :
                ~OnChain(envs, Top.environment, e) =>
                    \A name \in VarNames :
                        lookup_var(envs', e, name) = lookup_var(envs, e, name)
      ]_vars

(* f, called from g whose frame binds x to another value, has loaded the   *)
(* x of the environment it was defined in.                                 *)
C1_Witness ==
    /\ pc = "vm" /\ Len(frames) = 3
    /\ s_x \in DOMAIN envs[frames[2].environment].binding
    /\ s_x \notin DOMAIN envs[Top.environment].binding
    /\ Top.stack # <<>>
    /\ Top.stack[Len(Top.stack)] = envs[envs[Top.environment].parent_env].binding[s_x]
    /\ Top.stack[Len(Top.stack)] # envs[frames[2].environment].binding[s_x]

\* the nearest Environment on the chain of env that binds name, or 0
Binder(heap, env, name) ==
    LET chain == Chain(heap, env)
        binders == {i \in 1..Len(chain) : name \in DOMAIN heap[chain[i]].binding}
    IN IF binders = {} THEN 0
       ELSE chain[CHOOSE i \in binders : \A j \in binders : i <= j]

(* C2: DEF_FUNC captures the current frame's environment by reference.     *)
(* The closure it pushes holds the very Environment of the frame and no    *)
(* Environment is created; a call of the closure resolves a free variable  *)
(* in that Environment as it is at the call; and a SET_VAR that succeeds   *)
(* changes what every Environment resolving the name to the same binding   *)
(* sees, and nothing else.                                                 *)
C2_CaptureByReference ==
    [][/\ At(OP_DEF_FUNC) =>
            /\ envs' = envs
            /\ NewFrame.stack[Len(NewFrame.stack)].t = "Closure"
            /\ NewFrame.stack[Len(NewFrame.stack)].environment = Top.environment
       /\ ClosureCalled =>
            \A name \in VarNames \ DOMAIN envs'[NewFrame.environment].binding :
                lookup_var(envs', NewFrame.environment, name)
                    = lookup_var(envs, Callee.environment, name)
       /\ (At(OP_SET_VAR) /\ vmerr' = "") =>
            LET name == Top.codeobject.varnames[CurInstr.arg.value + 1].value
                value == Top.stack[Len(Top.stack)]
                target == Binder(envs, Top.environment, name)
            IN \A e \in 1..Len(envs) : \A other \in VarNames :
                   lookup_var(envs', e, other) =
                       IF other = name /\ Binder(envs, e, name) = target
                       THEN [err |-> "", val |-> value]
                       ELSE lookup_var(envs, e, other)
      ]_vars

(* The top-level frame reads, after calling f, the value that f's set!     *)
(* gave to the x the top-level had defined.                                *)
C2_Witness ==
    \E a, b \in Nums :
        /\ a # b
        /\ prog = ProgSet(a, b)
        /\ pc = "vm" /\ Len(frames) = 1
        /\ Top.stack = <<Number(b)>>

\* v is the boolean false: a Boolean equal (==) to Boolean(False), printed #f
IsBooleanFalse(v) == IsInstance(v, "Boolean") /\ PyEq(v, Boolean(PyFalse))

(* C3: truthiness.  JUMP_IF_FALSE pops one value and jumps if and only if  *)
(* the popped value is the boolean false, and the interpreter's if takes   *)
(* the else-branch for exactly the same values.                            *)
C3_Truthiness ==
    [][(At(OP_JUMP_IF_FALSE) /\ Top.stack # <<>>) =>
          LET v == Top.stack[Len(Top.stack)]
          IN /\ NewFrame.stack = DropLast(Top.stack, 1)
             /\ (NewFrame.instr_pointer = CurInstr.arg.value) <=> IsBooleanFalse(v)
             /\ interp_is_false(v) <=> IsBooleanFalse(v)
      ]_vars

(* C4: compile/interpret agreement.  When both evaluators have run the     *)
(* program, they have written the same lines and either both failed or     *)
(* both succeeded.                                                         *)
C4_Agreement ==
    pc = "done" => /\ output = iout
                   /\ (vmerr = "") <=> (ierr = "")

\* name |-> value for the parameters a and b
BindAB(va, vb) == [name \in {s_a, s_b} |-> IF name = s_a THEN va ELSE vb]

(* C10: procedure call ordering.  The callee receives the values of the    *)
(* arguments in source order: in (g a (+ b 1)) and in                      *)
(* (f a (g b (begin (define x 2) 3))) the closure g is called with its     *)
(* first parameter bound to the value of its first argument and its second *)
(* to the value of its second, and the built-in - in (- a b) yields a - b. *)
C10_CallOrdering ==
    [][\A a, b \in Nums :
          /\ (prog = ProgOrder(a, b) /\ ClosureCalled) =>
                envs'[NewFrame.environment].binding
                    = BindAB(Number(a), Number(b + 1))
          /\ (prog = ProgArgs(a, b) /\ ClosureCalled) =>
                envs'[NewFrame.environment].binding = BindAB(Number(b), Number(3))
          /\ (/\ prog = ProgIf(a, b) /\ At(OP_PROC_CALL)
              /\ Callee = Procedure(s_minus)) =>
                NewFrame.stack[Len(NewFrame.stack)] = Number(a - b)
      ]_vars

\* 'x1', 'x2', ...: the variable that holds the i-th argument
ArgName(i) == <<120, 48 + i>>

(* What the tree interpreter makes of the call (f x1 ... xn) when f is a    *)
(* closure of the given parameters and the xi hold the given values.       *)
InterpCall(params, args) ==
    _eval_proc_call(
        List(<<Symbol(s_f)>> \o [i \in 1..Len(args) |-> Symbol(ArgName(i))]),
        [heap |-> <<Environment(
                      [name \in {s_f} \cup {ArgName(i) : i \in 1..Len(args)} |->
                          IF name = s_f
                          THEN IClosure(params, List(<<Number(0)>>), 1, Str(s_f))
                          ELSE args[CHOOSE i \in 1..Len(args) : ArgName(i) = name]],
                      0)>>,
         env |-> 1, out |-> <<>>],
        0)

(* C11: arity discipline.  A PROC_CALL whose callee is a closure raises     *)
(* exactly when the number of arguments differs from the number of          *)
(* parameters; when it raises, no frame has been pushed and no Environment  *)
(* created or changed: the frames are those before the call with the        *)
(* operands popped.  The tree interpreter rejects the same call of a        *)
(* closure with the same parameters, and only such a call, also without     *)
(* creating an Environment.                                                 *)
C11_ArityDiscipline ==
    [][(/\ At(OP_PROC_CALL)
        /\ Len(Top.stack) > CurInstr.arg.value
        /\ IsInstance(Callee, "Closure")) =>
          LET n == CurInstr.arg.value
              args == PoppedArgs(DropLast(Top.stack, 1), n)
              params == Callee.codeobject.args
              popped == [Fetched EXCEPT !.stack = DropLast(Top.stack, n + 1)]
              rejected == vmerr' = "VirtualMachineError"
              interpreted == InterpCall(params, args)
          IN /\ rejected <=> Len(params) # n
             /\ rejected => frames' = SetTop(popped) /\ envs' = envs
             /\ rejected <=> interpreted.err = "InterpreterError"
             /\ rejected => Len(interpreted.st.heap) = 1
      ]_vars

\* both evaluators have rejected a call with too few or too many arguments
C11_Witness ==
    \E a, b \in Nums :
        /\ a # b
        /\ prog = ProgArity(a, b)
        /\ pc = "done"
        /\ vmerr = "VirtualMachineError"
        /\ ierr = "InterpreterError"

\* a op b for the comparison the built-in name stands for
Compares(name, a, b) ==
    CASE name = s_eq -> a = b
      [] name = s_gt -> a > b
      [] name = s_lt -> a < b
      [] name = s_ge -> a >= b
      [] name = s_le -> a <= b

(* C13: a comparison built-in (= > < >= <=) called with N >= 1 numbers     *)
(* returns Boolean(True) when every adjacent pair of arguments satisfies   *)
(* the comparison and Boolean(False) otherwise.                            *)
C13_ChainedComparison ==
    [][(/\ At(OP_PROC_CALL)
        /\ CurInstr.arg.value >= 1
        /\ Len(Top.stack) > CurInstr.arg.value
        /\ IsInstance(Callee, "Procedure")
        /\ Callee.name \in CompNames
        /\ AllInstances(PoppedArgs(DropLast(Top.stack, 1), CurInstr.arg.value),
                        "Number")) =>
          LET n == CurInstr.arg.value
              args == PoppedArgs(DropLast(Top.stack, 1), n)
              chained == \A i \in 1..(n - 1) :
                             Compares(Callee.name, args[i].value, args[i + 1].value)
              popped == [Fetched EXCEPT !.stack = DropLast(Top.stack, n + 1)]
          IN frames' = SetTop([popped EXCEPT !.stack =
                                   Append(@, Boolean(PyBool(chained)))])
      ]_vars

\* the lines a cond of the given clauses prints from clause i on, and its value
RECURSIVE CondExpected(_, _)
CondExpected(kinds, i) ==
    IF i > Len(kinds)
    THEN <<<<35, 102>>>>
    ELSE IF kinds[i] = "else"
    THEN <<IntStr(10 + i), IntStr(20 + i)>>
    ELSE <<IntStr(i)>> \o (IF kinds[i] = "f"
                           THEN CondExpected(kinds, i + 1)
                           ELSE <<IntStr(10 + i), IntStr(20 + i)>>)

ElseMisplaced(kinds) == \E i \in 1..(Len(kinds) - 1) : kinds[i] = "else"

(* C14: a cond evaluates its tests in clause order, runs the whole body of *)
(* the first clause whose test is not #f and gives its last value, runs no *)
(* later test or body, takes a final else when every test is #f, gives #f  *)
(* when no clause is taken, and is an error (nothing is compiled or        *)
(* evaluated) when an else clause is not the last one.                     *)
C14_CondDesugaring ==
    pc = "done" =>
        \A kinds \in CondShapes :
            prog = ProgCondChain(kinds) =>
                IF ElseMisplaced(kinds)
                THEN /\ code = None
                     /\ vmerr = "ExpressionError" /\ output = <<>>
                     /\ ierr = "ExpressionError" /\ iout = <<>>
                ELSE /\ vmerr = "" /\ output = CondExpected(kinds, 1)
                     /\ ierr = "" /\ iout = CondExpected(kinds, 1)

\* a cond whose first test is #f and whose second is 0 has run to its end
C14_Witness ==
    /\ prog = ProgCondChain(<<"f", "n", "else">>)
    /\ pc = "done"
    /\ output = <<<<49>>, <<50>>, <<49, 50>>, <<50, 50>>>>

(* C15: a let is compiled and interpreted as the immediately applied       *)
(* lambda: the code object of (let ((x a) (y b)) body) is the code object  *)
(* of ((lambda (x y) body) a b); the values are evaluated in the enclosing *)
(* environment (y bound to x gets the outer x), the body sees the new      *)
(* bindings, after the let the outer x is unchanged and y is undefined;    *)
(* (let ((x 3) (y 4)) (print (+ x y))) prints 7.                           *)
C15_LetDesugaring ==
    /\ pc = "run" =>
           \A a, b \in Nums :
               prog = ProgLet(a, b) => code = compile(ProgLambdaApplied(a, b)).co
    /\ pc = "done" =>
           /\ \A a, b \in Nums :
                  prog = ProgLetScope(a, b) =>
                      /\ output = <<IntStr(b), IntStr(a), IntStr(a)>>
                      /\ vmerr = "Undefined"
                      /\ iout = <<IntStr(b), IntStr(a), IntStr(a)>>
                      /\ ierr = "Undefined"
           /\ prog = ProgLetExample =>
                  /\ output = <<<<55>>>> /\ vmerr = ""
                  /\ iout = <<<<55>>>> /\ ierr = ""

\* a let that shadows x and binds y to the outer x has run in both evaluators
C15_Witness ==
    /\ prog = ProgLetScope(1, 2)
    /\ pc = "done"
    /\ output = <<<<50>>, <<49>>, <<49>>>>
    /\ iout = output

(* C16: compiling a lambda without a parameter list, a lambda with a       *)
(* parameter that is not a symbol, a define without a value or an if       *)
(* without an else-branch fails with CompilerError and gives no code       *)
(* object.                                                                 *)
C16_CompileErrors ==
    (prog \in ProgMalformed /\ pc # "compile") =>
        code = None /\ vmerr = "CompilerError"

\* the step is the start of a run_code: it pushed the root frame of the run
RunStarts == pc # "vm" /\ pc' = "vm"

(* C12: the root frame that run_code builds has an Environment whose       *)
(* parent is the Environment of the standard built-ins, on the first       *)
(* run_code of a VirtualMachine and on one that follows a run_code that    *)
(* returned or that a runtime error aborted.                               *)
C12_RootParent ==
    [][RunStarts =>
         LET root == frames'[Len(frames')]
             parent == envs'[root.environment].parent_env
         IN /\ parent > 0
            /\ envs'[parent] = _make_standard_env
      ]_vars

\* a second run_code has started on a VM whose first run_code raised
C12_AfterAbort ==
    /\ last # None
    /\ last.raised # ""
    /\ pc = "vm"

----------------------------------------------------------------------------
(* environment.py on its own: Environment objects are created and their   *)
(* methods called with any arguments; last records the call and what it    *)
(* returned or raised.                                                     *)

EnvNames == {s_x, s_y}
EnvValues == {Number(1), Number(2)}

Called(op, env, name, value, err, val) ==
    [op |-> op, env |-> env, name |-> name, value |-> value, err |-> err, val |-> val]

\* Environment(binding, parent_env) with an empty dict
NewEnvironment ==
    /\ Len(envs) < MaxEnvs
    /\ \E parent_env \in 0..Len(envs) :
           envs' = Append(envs, Environment(<<>>, parent_env))
    /\ last' = Called("new", Len(envs'), <<>>, None, "", None)
    /\ UNCHANGED <<lexer, frame, prog, pc, code, frames, return_value, output, vmerr, ienvs,
                   ienv, ipos, iout, ierr, bytes, sererr, decoded>>

CallLookupVar ==
    /\ \E self \in 1..Len(envs), varname \in EnvNames :
           LET r == lookup_var(envs, self, varname)
           IN last' = Called("lookup_var", self, varname, None, r.err, r.val)
    /\ UNCHANGED <<lexer, frame, prog, pc, code, frames, envs, return_value, output, vmerr,
                   ienvs, ienv, ipos, iout, ierr, bytes, sererr, decoded>>

CallDefineVar ==
    /\ \E self \in 1..Len(envs), varname \in EnvNames, value \in EnvValues :
           /\ envs' = define_var(envs, self, varname, value)
           /\ last' = Called("define_var", self, varname, value, "", None)
    /\ UNCHANGED <<lexer, frame, prog, pc, code, frames, return_value, output, vmerr, ienvs,
                   ienv, ipos, iout, ierr, bytes, sererr, decoded>>

CallSetVar ==
    /\ \E self \in 1..Len(envs), varname \in EnvNames, value \in EnvValues :
           LET r == set_var(envs, self, varname, value)
           IN /\ envs' = r.heap
              /\ last' = Called("set_var", self, varname, value, r.err, None)
    /\ UNCHANGED <<lexer, frame, prog, pc, code, frames, return_value, output, vmerr, ienvs,
                   ienv, ipos, iout, ierr, bytes, sererr, decoded>>

InitEnv ==
    /\ prog = <<>>
    /\ pc = "env"
    /\ code = None
    /\ frames = <<>>
    /\ frame = 0
    /\ envs = <<>>
    /\ return_value = None
    /\ output = <<>>
    /\ vmerr = ""
    /\ ienvs = <<>>
    /\ ienv = 0
    /\ ipos = 0
    /\ iout = <<>>
    /\ ierr = ""
    /\ bytes = <<>>
    /\ sererr = ""
    /\ decoded = None
    /\ lexer = None
    /\ last = Called("", 0, <<>>, None, "", None)

NextEnv ==
    \/ NewEnvironment
    \/ CallLookupVar
    \/ CallDefineVar
    \/ CallSetVar

SpecEnv == InitEnv /\ [][NextEnv]_vars

\* every binding of the heap except that of name in Environment env is as before
OthersUnchanged(env, name) ==
    /\ Len(envs') = Len(envs)
    /\ \A i \in 1..Len(envs) :
          /\ envs'[i].parent_env = envs[i].parent_env
          /\ \A other \in EnvNames :
                (i # env \/ other # name) =>
                    /\ (other \in DOMAIN envs'[i].binding)
                           <=> (other \in DOMAIN envs[i].binding)
                    /\ other \in DOMAIN envs[i].binding =>
                           envs'[i].binding[other] = envs[i].binding[other]

(* C7: set_var walks the chain from the Environment outward and replaces   *)
(* the binding in the first Environment that has the name and in no other; *)
(* when no Environment of the chain has the name it raises the             *)
(* undefined-variable error and every Environment is as before: it never   *)
(* creates a binding.                                                      *)
C7_SetVar ==
    [][last'.op = "set_var" =>
          LET target == Binder(envs, last'.env, last'.name)
          IN IF target = 0
             THEN last'.err = "Undefined" /\ envs' = envs
             ELSE /\ last'.err = ""
                  /\ last'.name \in DOMAIN envs'[target].binding
                  /\ envs'[target].binding[last'.name] = last'.value
                  /\ OthersUnchanged(target, last'.name)
      ]_vars

\* set_var from an inner Environment has replaced the binding of its parent
C7_Witness ==
    /\ last.op = "set_var" /\ last.err = ""
    /\ last.name \notin DOMAIN envs[last.env].binding
    /\ envs[last.env].parent_env # 0
    /\ envs[envs[last.env].parent_env].binding[last.name] = last.value

(* C8: define_var inserts or replaces the binding in the Environment it is *)
(* called on and changes no other Environment, also when an ancestor binds *)
(* the same name: the new binding then shadows the ancestor's for this     *)
(* Environment and for those that reach it first.                          *)
C8_DefineVar ==
    [][last'.op = "define_var" =>
          /\ last'.name \in DOMAIN envs'[last'.env].binding
          /\ envs'[last'.env].binding[last'.name] = last'.value
          /\ OthersUnchanged(last'.env, last'.name)
          /\ \A d \in 1..Len(envs) :
                Binder(envs', d, last'.name) = last'.env =>
                    lookup_var(envs', d, last'.name)
                        = [err |-> "", val |-> last'.value]
      ]_vars

\* define_var has bound a name that the parent binds to another value
C8_Witness ==
    /\ last.op = "define_var"
    /\ envs[last.env].parent_env # 0
    /\ last.name \in DOMAIN envs[envs[last.env].parent_env].binding
    /\ envs[envs[last.env].parent_env].binding[last.name] # last.value
    /\ envs[last.env].binding[last.name] = last.value

----------------------------------------------------------------------------
(* utils.py and bytecode.py: the Serializer.  A byte string is a sequence  *)
(* of numbers 0..255.  The result of a serializing method is [err, bytes], *)
(* err naming the exception it raised ("" if none).                        *)

TYPE_CODEOBJECT == 67
TYPE_INSTRUCTION == 73
TYPE_PAIR == 80
TYPE_BOOLEAN == 66
TYPE_NUMBER == 78
TYPE_SYMBOL == 83
TYPE_SEQUENCE == 91
TYPE_STRING == 115
TYPE_PY_STRING == 112
TYPE_NIL == 110

MAGIC_CONSTANT == 26

Ser(stream) == [err |-> "", bytes |-> stream]
SerFail(err) == [err |-> err, bytes |-> <<>>]

\* a + b on two results: the first exception raised wins
SerCat(a, b) ==
    IF a.err # "" THEN a
    ELSE IF b.err # "" THEN b
    ELSE Ser(a.bytes \o b.bytes)

\* struct.pack('<I', value): 32 bits unsigned, little endian
pack_integer(value) ==
    IF value >= 0 /\ value \div 65536 < 65536
    THEN Ser(<<value % 256, (value \div 256) % 256,
               (value \div 65536) % 256, (value \div 16777216) % 256>>)
    ELSE SerFail("struct.error")

\* struct.unpack('<I', value)[0] on four bytes
unpack_integer(value) ==
    value[1] + 256 * value[2] + 65536 * value[3] + 16777216 * value[4]

(* the UTF-16 code units of characters of the basic plane, little endian:  *)
(* character k gives bytes 2k-1 (low) and 2k (high)                        *)
utf16_le(chars) ==
    [i \in 1..(2 * Len(chars)) |->
        IF i % 2 = 1 THEN chars[(i + 1) \div 2] % 256
                     ELSE chars[i \div 2] \div 256]

\* str.encode('utf-16'): the byte order mark FF FE, then the code units
encode_utf16(chars) == <<255, 254>> \o utf16_le(chars)

pack_string(value) ==
    LET encoded_value == encode_utf16(value)
    IN SerCat(pack_integer(Len(encoded_value)), Ser(encoded_value))

RECURSIVE _dispatch(_)
RECURSIVE serialize_elements(_, _, _)
RECURSIVE _serialize_pair(_)
RECURSIVE _serialize_codeobject(_)

_serialize_instruction(value) ==
    LET arg == IF Truthy(value.arg) THEN value.arg.value ELSE 0
    IN SerCat(Ser(<<TYPE_INSTRUCTION>>),
              SerCat(pack_integer(value.opcode), pack_integer(arg)))

_serialize_pair(value) ==
    SerCat(Ser(<<TYPE_PAIR>>),
           SerCat(_dispatch(value.first), _dispatch(value.second)))

_serialize_boolean(value) ==
    SerCat(Ser(<<TYPE_BOOLEAN>>), pack_integer(value.value.value))

_serialize_number(value) ==
    SerCat(Ser(<<TYPE_NUMBER>>), pack_integer(value.value))

_serialize_symbol(value) ==
    SerCat(Ser(<<TYPE_SYMBOL>>), pack_string(value.value))

_serialize_py_string(value) ==
    SerCat(Ser(<<TYPE_PY_STRING>>), pack_string(value.value))

_serialize_nil(value) == Ser(<<TYPE_NIL>>)

(* b''.join(self._serialize_object(el) for el in value) over the elements  *)
(* value[lo..hi]: the bytes of the first half of the range followed by the *)
(* bytes of the second half, the first exception raised ending the join.   *)
serialize_elements(value, lo, hi) ==
    CASE lo > hi -> Ser(<<>>)
      [] lo = hi -> _dispatch(value[lo])
      [] lo < hi ->
           SerCat(serialize_elements(value, lo, (lo + hi) \div 2),
                  serialize_elements(value, (lo + hi) \div 2 + 1, hi))

_serialize_sequence(value) ==
    LET stream == serialize_elements(value, 1, Len(value))
    IN IF stream.err # "" THEN stream
       ELSE SerCat(Ser(<<TYPE_SEQUENCE>>),
                   SerCat(pack_integer(Len(value)), stream))

\* the six parts of the stream, added up from left to right
_serialize_codeobject(co) ==
    SerCat(SerCat(SerCat(Ser(<<TYPE_CODEOBJECT>>),
                         _serialize_py_string(co.name)),
                  SerCat(_serialize_sequence(co.args),
                         _serialize_sequence(co.code))),
           SerCat(_serialize_sequence(co.constants),
                  _serialize_sequence(co.varnames)))

_dispatch(value) ==
    CASE IsInstance(value, "CodeObject") -> _serialize_codeobject(value)
      [] IsInstance(value, "Instruction") -> _serialize_instruction(value)
      [] IsInstance(value, "Pair") -> _serialize_pair(value)
      [] IsInstance(value, "Boolean") -> _serialize_boolean(value)
      [] IsInstance(value, "Number") -> _serialize_number(value)
      [] IsInstance(value, "Symbol") -> _serialize_symbol(value)
      [] IsInstance(value, "str") -> _serialize_py_string(value)
      [] IsInstance(value, "String") ->
           SerCat(Ser(<<TYPE_STRING>>), pack_string(value.value))
      [] IsInstance(value, "Nil") -> _serialize_nil(value)
      [] OTHER -> SerFail("SerializationError")

\* Serializer(codeobject).serialize()
serialize(codeobject) ==
    LET serialized_codeobject == _serialize_codeobject(codeobject)
    IN IF serialized_codeobject.err # "" THEN serialized_codeobject
       ELSE SerCat(pack_integer(MAGIC_CONSTANT), serialized_codeobject)

----------------------------------------------------------------------------
(* utils.py and bytecode.py: Stream and the Deserializer.  counter is      *)
(* Stream.counter; the result of a deserializing method is                 *)
(* [err, val, counter], counter being where the stream stands afterwards.  *)

DResult(val, counter) == [err |-> "", val |-> val, counter |-> counter]
DFail(err, counter) == [err |-> err, val |-> None, counter |-> counter]

(* Stream.read: next(self) raises StopIteration inside the generator       *)
(* expression when the stream is exhausted, which Python 3.7 and later     *)
(* turn into a RuntimeError.                                               *)
read(stream, counter, nbytes) ==
    IF counter + nbytes > Len(stream)
    THEN DFail("RuntimeError", IF counter > Len(stream) THEN counter ELSE Len(stream))
    ELSE DResult(SubSeq(stream, counter + 1, counter + nbytes), counter + nbytes)

get_curr_byte(stream, counter) ==
    IF counter >= Len(stream) THEN <<>> ELSE <<stream[counter + 1]>>

_match(stream, counter, obj_type) ==
    IF get_curr_byte(stream, counter) # <<obj_type>>
    THEN DFail("DeserializationError", counter)
    ELSE DResult(None, counter + 1)

\* unpack_integer(self.stream.read(4))
read_integer(stream, counter) ==
    LET value == read(stream, counter, 4)
    IN IF value.err # "" THEN value
       ELSE DResult(unpack_integer(value.val), value.counter)

\* the characters of UTF-16 code units below the surrogates
utf16_chars(units, big_endian) ==
    [k \in 1..(Len(units) \div 2) |->
        IF big_endian THEN 256 * units[2 * k - 1] + units[2 * k]
                      ELSE units[2 * k - 1] + 256 * units[2 * k]]

\* bytes.decode('utf-16'): [err, val]; a byte order mark chooses the order
unpack_string(value) ==
    LET marked == Len(value) >= 2 /\ SubSeq(value, 1, 2) \in {<<255, 254>>, <<254, 255>>}
        units == IF marked THEN SubSeq(value, 3, Len(value)) ELSE value
    IN IF Len(units) % 2 # 0
       THEN [err |-> "UnicodeDecodeError", val |-> <<>>]
       ELSE [err |-> "",
             val |-> utf16_chars(units, marked /\ value[1] = 254)]

\* str_len = unpack_integer(self.stream.read(4)); unpack_string(self.stream.read(str_len))
read_string(stream, counter) ==
    LET str_len == read_integer(stream, counter)
        value == read(stream, str_len.counter, str_len.val)
        chars == unpack_string(value.val)
    IN IF str_len.err # "" THEN str_len
       ELSE IF value.err # "" THEN value
       ELSE IF chars.err # "" THEN DFail(chars.err, value.counter)
       ELSE DResult(chars.val, value.counter)

RECURSIVE _deserialize_object(_, _)
RECURSIVE deserialize_elements(_, _, _)
RECURSIVE _deserialize_codeobject(_, _)
RECURSIVE _deserialize_pair(_, _)

_deserialize_instruction(stream, counter) ==
    LET tag == _match(stream, counter, TYPE_INSTRUCTION)
        opcode == read_integer(stream, tag.counter)
        arg == read_integer(stream, opcode.counter)
    IN IF tag.err # "" THEN tag
       ELSE IF opcode.err # "" THEN opcode
       ELSE IF arg.err # "" THEN arg
       ELSE DResult(Instruction(opcode.val, PyInt(arg.val)), arg.counter)

_deserialize_pair(stream, counter) ==
    LET tag == _match(stream, counter, TYPE_PAIR)
        paired(first, second) ==
            IF second.err # ""
            THEN second
            ELSE DResult(Pair(first.val, second.val), second.counter)
        with_first(first) ==
            IF first.err # ""
            THEN first
            ELSE paired(first, _deserialize_object(stream, first.counter))
    IN IF tag.err # ""
       THEN tag
       ELSE with_first(_deserialize_object(stream, tag.counter))

_deserialize_boolean(stream, counter) ==
    LET tag == _match(stream, counter, TYPE_BOOLEAN)
        value == read_integer(stream, tag.counter)
    IN IF tag.err # "" THEN tag
       ELSE IF value.err # "" THEN value
       ELSE DResult(Boolean(PyInt(value.val)), value.counter)

_deserialize_number(stream, counter) ==
    LET tag == _match(stream, counter, TYPE_NUMBER)
        value == read_integer(stream, tag.counter)
    IN IF tag.err # "" THEN tag
       ELSE IF value.err # "" THEN value
       ELSE DResult(Number(value.val), value.counter)

_deserialize_symbol(stream, counter) ==
    LET tag == _match(stream, counter, TYPE_SYMBOL)
        value == read_string(stream, tag.counter)
    IN IF tag.err # "" THEN tag
       ELSE IF value.err # "" THEN value
       ELSE DResult(Symbol(value.val), value.counter)

_deserialize_py_string(stream, counter) ==
    LET tag == _match(stream, counter, TYPE_PY_STRING)
        value == read_string(stream, tag.counter)
    IN IF tag.err # "" THEN tag
       ELSE IF value.err # "" THEN value
       ELSE DResult(Str(value.val), value.counter)

_deserialize_string(stream, counter) ==
    LET tag == _match(stream, counter, TYPE_STRING)
        value == read_string(stream, tag.counter)
    IN IF tag.err # "" THEN tag
       ELSE IF value.err # "" THEN value
       ELSE DResult([t |-> "String", value |-> value.val], value.counter)

_deserialize_nil(stream, counter) ==
    LET tag == _match(stream, counter, TYPE_NIL)
    IN IF tag.err # "" THEN tag ELSE DResult(Nil, tag.counter)

(* [self._deserialize_object() for _ in range(seq_len)] from counter on:   *)
(* one element is one _deserialize_object, more are the first half of      *)
(* them followed by the others, read from where the first half ended.      *)
deserialize_elements(stream, counter, seq_len) ==
    LET one(el) ==
            IF el.err # "" THEN el ELSE DResult(<<el.val>>, el.counter)
        joined(front, back) ==
            IF back.err # ""
            THEN back
            ELSE DResult(front.val \o back.val, back.counter)
        after(front) ==
            IF front.err # ""
            THEN front
            ELSE joined(front,
                        deserialize_elements(stream, front.counter,
                                             seq_len - seq_len \div 2))
    IN CASE seq_len = 0 -> DResult(<<>>, counter)
         [] seq_len = 1 -> one(_deserialize_object(stream, counter))
         [] seq_len > 1 ->
              after(deserialize_elements(stream, counter, seq_len \div 2))

_deserialize_sequence(stream, counter) ==
    LET tag == _match(stream, counter, TYPE_SEQUENCE)
        seq_len == read_integer(stream, tag.counter)
    IN IF tag.err # "" THEN tag
       ELSE IF seq_len.err # "" THEN seq_len
       ELSE deserialize_elements(stream, seq_len.counter, seq_len.val)

_deserialize_codeobject(stream, counter) ==
    LET tag == _match(stream, counter, TYPE_CODEOBJECT)
        with_varnames(name, args, co_code, constants, varnames) ==
            IF varnames.err # ""
            THEN varnames
            ELSE DResult([CodeObject(<<>>, <<>>, <<>>, <<>>, Str(<<>>)) EXCEPT
                            !.name = name.val, !.args = args.val,
                            !.code = co_code.val, !.constants = constants.val,
                            !.varnames = varnames.val],
                         varnames.counter)
        with_constants(name, args, co_code, constants) ==
            IF constants.err # ""
            THEN constants
            ELSE with_varnames(name, args, co_code, constants,
                     _deserialize_sequence(stream, constants.counter))
        with_code(name, args, co_code) ==
            IF co_code.err # ""
            THEN co_code
            ELSE with_constants(name, args, co_code,
                     _deserialize_sequence(stream, co_code.counter))
        with_args(name, args) ==
            IF args.err # ""
            THEN args
            ELSE with_code(name, args,
                     _deserialize_sequence(stream, args.counter))
        with_name(name) ==
            IF name.err # ""
            THEN name
            ELSE with_args(name, _deserialize_sequence(stream, name.counter))
    IN IF tag.err # ""
       THEN tag
       ELSE with_name(_deserialize_py_string(stream, tag.counter))

\* _dispatch(self.stream.get_curr_byte())
_deserialize_object(stream, counter) ==
    LET obj_type == get_curr_byte(stream, counter)
    IN CASE obj_type = <<TYPE_CODEOBJECT>> -> _deserialize_codeobject(stream, counter)
         [] obj_type = <<TYPE_INSTRUCTION>> -> _deserialize_instruction(stream, counter)
         [] obj_type = <<TYPE_PAIR>> -> _deserialize_pair(stream, counter)
         [] obj_type = <<TYPE_BOOLEAN>> -> _deserialize_boolean(stream, counter)
         [] obj_type = <<TYPE_NUMBER>> -> _deserialize_number(stream, counter)
         [] obj_type = <<TYPE_SYMBOL>> -> _deserialize_symbol(stream, counter)
         [] obj_type = <<TYPE_PY_STRING>> -> _deserialize_py_string(stream, counter)
         [] obj_type = <<TYPE_STRING>> -> _deserialize_string(stream, counter)
         [] obj_type = <<TYPE_NIL>> -> _deserialize_nil(stream, counter)
         [] OTHER -> DFail("DeserializationError", counter)

\* a deserialize that does not compare the first word with the magic constant
deserialize_unchecked(stream) ==
    LET magic_const == read_integer(stream, 0)
    IN IF magic_const.err # "" THEN magic_const
       ELSE _deserialize_codeobject(stream, magic_const.counter)

\* Deserializer(bytecode).deserialize()
deserialize(stream) ==
    LET magic_const == read_integer(stream, 0)
    IN IF magic_const.err # "" THEN magic_const
       ELSE IF magic_const.val # MAGIC_CONSTANT
       THEN DFail("DeserializationError", magic_const.counter)
       ELSE _deserialize_codeobject(stream, magic_const.counter)

----------------------------------------------------------------------------
(* schemey.py: compile_file writes the serialized CodeObject of a program  *)
(* to a bytecode file and decompile_file reads a bytecode file back.       *)
(* bytes is the content of the file, which need not be a file that         *)
(* compile_file wrote.                                                     *)

MaxCorrupt == 5

ReadResult(err, counter, foreign) ==
    [op |-> "deserialize", err |-> err, counter |-> counter, foreign |-> foreign]

(* co = compile_source(source); bytecode = Serializer(co).serialize():      *)
(* [err, co, bytes], co None when compile_source raised                    *)
compiled_bytecode(source) ==
    LET serialized(co, bytecode) ==
            [err |-> bytecode.err, co |-> co.co, bytes |-> bytecode.bytes]
        with_co(co) ==
            IF co.err # ""
            THEN [err |-> co.err, co |-> None, bytes |-> <<>>]
            ELSE serialized(co, serialize(co.co))
    IN with_co(compile(source))

compile_file ==
    /\ pc = "source"
    /\ \E written \in {compiled_bytecode(prog)} :
          /\ code' = IF written.co = None THEN code ELSE written.co
          /\ sererr' = IF written.err # "" THEN written.err ELSE sererr
          /\ bytes' = IF written.err # "" THEN bytes ELSE written.bytes
          /\ pc' = IF written.err # "" THEN "failed" ELSE "written"
    /\ UNCHANGED <<lexer, frame, prog, frames, envs, return_value, output, vmerr, ienvs, ienv,
                   ipos, iout, ierr, decoded, last>>

\* the file is replaced by one that differs in its first bytes or is cut short
ForeignFile ==
    /\ pc = "written"
    /\ \/ \E i \in 1..MaxCorrupt, byte \in {0, 27, 67} :
             /\ i <= Len(bytes)
             /\ bytes' = [bytes EXCEPT ![i] = byte]
       \/ \E k \in 0..MaxCorrupt :
             /\ k <= Len(bytes)
             /\ bytes' = SubSeq(bytes, 1, k)
    /\ pc' = "foreign"
    /\ UNCHANGED <<lexer, frame, prog, code, frames, envs, return_value, output, vmerr, ienvs,
                   ienv, ipos, iout, ierr, sererr, decoded, last>>

decompile_file ==
    /\ pc \in {"written", "foreign"}
    /\ \E co \in {deserialize(bytes)} :
          /\ decoded' = co.val
          /\ last' = ReadResult(co.err, co.counter, pc = "foreign")
    /\ pc' = "read"
    /\ UNCHANGED <<lexer, frame, prog, code, frames, envs, return_value, output, vmerr, ienvs,
                   ienv, ipos, iout, ierr, bytes, sererr>>

InitSer ==
    /\ prog \in Programs
    /\ pc = "source"
    /\ code = None
    /\ frames = <<>>
    /\ frame = 0
    /\ envs = <<>>
    /\ return_value = None
    /\ output = <<>>
    /\ vmerr = ""
    /\ ienvs = <<>>
    /\ ienv = 0
    /\ ipos = 0
    /\ iout = <<>>
    /\ ierr = ""
    /\ bytes = <<>>
    /\ sererr = ""
    /\ decoded = None
    /\ lexer = None
    /\ last = ReadResult("", 0, FALSE) 

NextSer ==
    \/ compile_file
    \/ ForeignFile
    \/ decompile_file

SpecSer == InitSer /\ [][NextSer]_vars

\* value.arg or 0
ArgOrZero(instruction) ==
    IF Truthy(instruction.arg) THEN instruction.arg.value ELSE 0

(* Structural equality: CodeObjects by their five fields, Instructions by  *)
(* opcode and arg (no arg and arg 0 taken as the same), any other object   *)
(* by its own ==.                                                          *)
RECURSIVE StructEq(_, _)
StructEq(a, b) ==
    LET SeqEq(x, y) ==
            Len(x) = Len(y) /\ \A i \in 1..Len(x) : StructEq(x[i], y[i])
    IN CASE a.t = "CodeObject" ->
              /\ b.t = "CodeObject"
              /\ a.name = b.name
              /\ SeqEq(a.args, b.args)
              /\ SeqEq(a.code, b.code)
              /\ SeqEq(a.constants, b.constants)
              /\ SeqEq(a.varnames, b.varnames)
         [] a.t = "Instruction" ->
              /\ b.t = "Instruction"
              /\ a.opcode = b.opcode
              /\ ArgOrZero(a) = ArgOrZero(b)
         [] OTHER -> PyEq(a, b)

(* C5: serializer round trip.  For every CodeObject the compiler produces, *)
(* serialize succeeds, and deserializing the bytes it wrote succeeds and   *)
(* yields a CodeObject structurally equal to the compiled one.             *)
C5_RoundTrip ==
    /\ pc = "failed" => code = None
    /\ (pc = "read" /\ ~last.foreign) =>
          /\ last.err = ""
          /\ StructEq(decoded, code)

\* the first four bytes are 1A 00 00 00
HasMagic(stream) == Len(stream) >= 4 /\ SubSeq(stream, 1, 4) = <<26, 0, 0, 0>>

----------------------------------------------------------------------------
(* lexer.py.  A Lexer is [buffer, pos]: the text, a sequence of code       *)
(* points, and the 0-based offset of the next character.  _get_char(pos)   *)
(* is buffer[pos + 1] when pos < Len(buffer) and None otherwise.           *)

MaxText == 3       \* characters of the texts handed to the lexer on its own

ADDITIONAL_BUILTIN_CHARS == {63, 33, 46}      \* ? ! .
GARBAGE_CHARS == {59, 32, 10, 9, 13}          \* ; space \n \t \r
TRUE_OR_FALSE_CHARS == {116, 102}             \* t f
ADD_OR_SUB_CHARS == {43, 45}                  \* + -

\* str.isdigit and str.isalnum on one ASCII character
isdigit(char) == char \in 48..57
isalnum(char) == char \in (48..57) \cup (65..90) \cup (97..122)

\* char in builtin_map.keys(): the one-character names of the built-ins
is_identifier(char) ==
    isalnum(char) \/ <<char>> \in builtin_map \/ char \in ADDITIONAL_BUILTIN_CHARS

Token(token_type, val, pos) ==
    [t |-> "Token", token_type |-> token_type, val |-> val, pos |-> pos]
Error(pos) == [t |-> "Error", pos |-> pos]

Lexer(buffer) == [buffer |-> buffer, pos |-> 0]

\* the loop of _skip_comments, entered on a ';': stops at '\n' or at the end
RECURSIVE comment_end(_, _)
comment_end(buffer, pos) ==
    IF pos < Len(buffer) /\ buffer[pos + 1] # 10
    THEN comment_end(buffer, pos + 1)
    ELSE pos

_skip_comments(buffer, pos) ==
    IF pos < Len(buffer) /\ buffer[pos + 1] = 59
    THEN comment_end(buffer, pos)
    ELSE pos

RECURSIVE _skip_whitespace(_, _)
_skip_whitespace(buffer, pos) ==
    IF pos < Len(buffer) /\ buffer[pos + 1] \in GARBAGE_CHARS
    THEN _skip_whitespace(buffer, pos + 1)
    ELSE pos

\* while self._get_char(self.pos) in GARBAGE_CHARS: comments, then whitespace
RECURSIVE skip_garbage(_, _)
skip_garbage(buffer, pos) ==
    IF pos < Len(buffer) /\ buffer[pos + 1] \in GARBAGE_CHARS
    THEN skip_garbage(buffer, _skip_whitespace(buffer, _skip_comments(buffer, pos)))
    ELSE pos

\* the endpos of _process_number: past the consecutive digits
RECURSIVE number_end(_, _)
number_end(buffer, endpos) ==
    IF endpos < Len(buffer) /\ isdigit(buffer[endpos + 1])
    THEN number_end(buffer, endpos + 1)
    ELSE endpos

\* the endpos of _process_identifier
RECURSIVE identifier_end(_, _)
identifier_end(buffer, endpos) ==
    IF endpos < Len(buffer) /\ is_identifier(buffer[endpos + 1])
    THEN identifier_end(buffer, endpos + 1)
    ELSE endpos

\* what a call of next_token gives: the value returned, the exception raised
\* ("" if none) and self.pos afterwards
Lexed(val, pos) == [err |-> "", val |-> val, pos |-> pos]
LexFailed(err, pos) == [err |-> err, val |-> None, pos |-> pos]

_process_boolean(buffer, pos) ==
    Lexed(Token("BOOLEAN", SubSeq(buffer, pos + 1, pos + 2), pos), pos + 2)

_process_number(buffer, pos) ==
    LET made(endpos) ==
            Lexed(Token("NUMBER", SubSeq(buffer, pos + 1, endpos), pos), endpos)
    IN made(number_end(buffer, pos + 1))

_process_identifier(buffer, pos) ==
    LET made(endpos) ==
            Lexed(Token("IDENTIFIER", SubSeq(buffer, pos + 1, endpos), pos), endpos)
    IN made(identifier_end(buffer, pos + 1))

\* _process_lparen, _process_rparen and _process_quote
_process_char(token_type, buffer, pos) ==
    Lexed(Token(token_type, <<buffer[pos + 1]>>, pos), pos + 1)

(* next_token.  self.buffer[self.pos + 1] is read without a test of the    *)
(* length when char is '#', '+' or '-': IndexError at the last character.  *)
next_token(buffer, from) ==
    LET scan(pos) ==
            IF pos >= Len(buffer)
            THEN Lexed(None, pos)
            ELSE LET char == buffer[pos + 1]
                     last_char == pos + 1 >= Len(buffer)
                 IN CASE char = 35 /\ last_char -> LexFailed("IndexError", pos)
                      [] char = 35 /\ ~last_char ->
                           IF buffer[pos + 2] \in TRUE_OR_FALSE_CHARS
                           THEN _process_boolean(buffer, pos)
                           ELSE Lexed(Error(pos), pos)
                      [] isdigit(char) -> _process_number(buffer, pos)
                      [] char \in ADD_OR_SUB_CHARS /\ last_char ->
                           LexFailed("IndexError", pos)
                      [] char \in ADD_OR_SUB_CHARS /\ ~last_char ->
                           IF isdigit(buffer[pos + 2])
                           THEN _process_number(buffer, pos)
                           ELSE _process_identifier(buffer, pos)
                      [] char = 40 -> _process_char("LPAREN", buffer, pos)
                      [] char = 41 -> _process_char("RPAREN", buffer, pos)
                      [] char = 39 -> _process_char("QUOTE", buffer, pos)
                      [] OTHER ->
                           IF is_identifier(char)
                           THEN _process_identifier(buffer, pos)
                           ELSE Lexed(Error(pos), pos)
    IN scan(skip_garbage(buffer, from))

----------------------------------------------------------------------------
(* A Lexer on its own: next_token is called until it returns None or an    *)
(* Error, or raises.                                                       *)

\* ( ) ' # t + 1 space ; \n @
LexChars == {40, 41, 39, 35, 116, 43, 49, 32, 59, 10, 64}
Texts == UNION {[1..n -> LexChars] : n \in 0..MaxText}

InitLex ==
    /\ lexer \in {Lexer(text) : text \in Texts}
    /\ pc = "lex"
    /\ prog = <<>>
    /\ code = None
    /\ frames = <<>>
    /\ frame = 0
    /\ envs = <<>>
    /\ return_value = None
    /\ output = <<>>
    /\ vmerr = ""
    /\ ienvs = <<>>
    /\ ienv = 0
    /\ ipos = 0
    /\ iout = <<>>
    /\ ierr = ""
    /\ bytes = <<>>
    /\ sererr = ""
    /\ decoded = None
    /\ last = None

NextToken ==
    /\ pc = "lex"
    /\ \E r \in {next_token(lexer.buffer, lexer.pos)} :
          /\ lexer' = [lexer EXCEPT !.pos = r.pos]
          /\ last' = [op |-> "next_token", from |-> lexer.pos,
                      err |-> r.err, val |-> r.val]
          /\ pc' = IF r.err = "" /\ IsInstance(r.val, "Token")
                   THEN "lex"
                   ELSE "lexed"
    /\ UNCHANGED <<prog, code, frames, frame, envs, return_value, output, vmerr,
                   ienvs, ienv, ipos, iout, ierr, bytes, sererr, decoded>>

NextLex == NextToken

SpecLex == InitLex /\ [][NextLex]_vars

\* the characters of buffer at the offsets from..(to - 1) are whitespace or
\* lie in a comment, which runs from a ';' to the end of its line
OnlyBlank(buffer, from, to) ==
    \A i \in from..(to - 1) :
        \/ buffer[i + 1] \in GARBAGE_CHARS
        \/ \E j \in from..(i - 1) :
              /\ buffer[j + 1] = 59
              /\ \A k \in j..(i - 1) : buffer[k + 1] # 10

\* the text of a token is the longest that the rule of its type allows
MaximalRun(buffer, token, endpos) ==
    LET val == token.val
        more == endpos < Len(buffer)
    IN CASE token.token_type = "BOOLEAN" -> val \in {<<35, 116>>, <<35, 102>>}
         [] token.token_type = "NUMBER" ->
              /\ isdigit(val[1]) \/ (val[1] \in ADD_OR_SUB_CHARS /\ Len(val) > 1)
              /\ \A i \in 2..Len(val) : isdigit(val[i])
              /\ more => ~isdigit(buffer[endpos + 1])
         [] token.token_type = "IDENTIFIER" ->
              /\ \A i \in 1..Len(val) : is_identifier(val[i])
              /\ more => ~is_identifier(buffer[endpos + 1])
         [] token.token_type = "LPAREN" -> val = <<40>>
         [] token.token_type = "RPAREN" -> val = <<41>>
         [] token.token_type = "QUOTE" -> val = <<39>>

(* C20: every call of next_token returns a token that starts at its pos,   *)
(* is the maximal run of its rule and leaves the lexer strictly further,   *)
(* or the end sentinel None with only whitespace and comments left, or an  *)
(* Error with the offset of a character that starts no token; it raises   *)
(* nothing, also when '#', '+' or '-' is the last character.               *)
C20_LexerTotality ==
    (pc \in {"lex", "lexed"} /\ last # None) =>
        LET buffer == lexer.buffer
            val == last.val
        IN /\ last.err = ""
           /\ CASE val.t = "NoneType" ->
                     /\ lexer.pos = Len(buffer)
                     /\ OnlyBlank(buffer, last.from, Len(buffer))
                [] val.t = "Error" ->
                     /\ val.pos < Len(buffer)
                     /\ OnlyBlank(buffer, last.from, val.pos)
                     /\ buffer[val.pos + 1] \notin GARBAGE_CHARS \cup {40, 41, 39}
                     /\ ~is_identifier(buffer[val.pos + 1])
                [] val.t = "Token" ->
                     /\ OnlyBlank(buffer, last.from, val.pos)
                     /\ lexer.pos > last.from
                     /\ val.val # <<>>
                     /\ val.val = SubSeq(buffer, val.pos + 1, lexer.pos)
                     /\ MaximalRun(buffer, val, lexer.pos)

----------------------------------------------------------------------------
(* _parser.py.  The state of a Parser is [pos, token]: the pos of its      *)
(* Lexer and self.token (a Token, an Error or None).  A rule gives         *)
(* [err, val, st]: the exception raised ("" if none), the datum returned   *)
(* and the state afterwards.                                               *)

ParserState(pos, token) == [pos |-> pos, token |-> token]
Parsed(val, st) == [err |-> "", val |-> val, st |-> st]
ParseFailed(err, st) == [err |-> err, val |-> None, st |-> st]

(* _error: pos = pos or self.token.pos, then ParserError is raised.  pos   *)
(* is 0 when the caller gives none (None and 0 are both false); reading    *)
(* self.token.pos raises AttributeError when self.token is None.           *)
_error(token, pos) ==
    IF pos = 0 /\ token = None THEN "AttributeError" ELSE "ParserError"

_get_token(buffer, st) ==
    LET got(r) ==
            IF r.err # ""
            THEN ParseFailed(r.err, ParserState(r.pos, st.token))
            ELSE IF IsInstance(r.val, "Error")
            THEN ParseFailed(_error(r.val, r.val.pos), ParserState(r.pos, r.val))
            ELSE Parsed(None, ParserState(r.pos, r.val))
    IN got(next_token(buffer, st.pos))

_consume(buffer, st, token_type) ==
    IF st.token = None
    THEN ParseFailed("AttributeError", st)
    ELSE IF st.token.token_type = token_type
    THEN _get_token(buffer, st)
    ELSE ParseFailed(_error(st.token, 0), st)

\* int() of the digits of a NUMBER token, from the most significant on
RECURSIVE digits_value(_, _)
digits_value(digits, acc) ==
    IF digits = <<>>
    THEN acc
    ELSE digits_value(Tail(digits), 10 * acc + (Head(digits) - 48))

\* int(val) for the text of a NUMBER token
int(val) ==
    CASE val[1] = 45 -> -digits_value(Tail(val), 0)
      [] val[1] = 43 -> digits_value(Tail(val), 0)
      [] OTHER -> digits_value(val, 0)

_simple_datum(buffer, st) ==
    LET made(retval) ==
            LET next(r) == IF r.err # "" THEN r ELSE Parsed(retval, r.st)
            IN next(_get_token(buffer, st))
    IN CASE st.token.token_type = "BOOLEAN" ->
              made(Boolean(PyBool(st.token.val = <<35, 116>>)))
         [] st.token.token_type = "NUMBER" -> made(Number(int(st.token.val)))
         [] st.token.token_type = "IDENTIFIER" -> made(Symbol(st.token.val))
         [] OTHER -> ParseFailed(_error(st.token, 0), st)

\* for datum in reversed(datums): cdr = Pair(datum, cdr)
RECURSIVE fold_pairs(_, _)
fold_pairs(datums, cdr) ==
    IF datums = <<>>
    THEN cdr
    ELSE Pair(Head(datums), fold_pairs(Tail(datums), cdr))

RECURSIVE _datum(_, _)
RECURSIVE list_loop(_, _, _, _)

(* The while loop of _list: [err, st, datums, dot_index] at its break or   *)
(* at the exception that ends it.                                          *)
list_loop(buffer, st, datums, dot_index) ==
    LET ended(err, st1) ==
            [err |-> err, st |-> st1, datums |-> datums, dot_index |-> dot_index]
        after_dot(r) ==
            IF r.err # ""
            THEN ended(r.err, r.st)
            ELSE list_loop(buffer, r.st, datums, Len(datums))
        after_datum(r) ==
            IF r.err # ""
            THEN ended(r.err, r.st)
            ELSE list_loop(buffer, r.st, Append(datums, r.val), dot_index)
    IN CASE st.token = None -> ended(_error(st.token, st.pos - 3), st)
         [] st.token # None /\ st.token.token_type = "RPAREN" -> ended("", st)
         [] st.token # None /\ st.token.token_type # "RPAREN"
              /\ st.token.val = <<46>> ->
              IF dot_index > 0
              THEN ended(_error(st.token, 0), st)
              ELSE after_dot(_consume(buffer, st, "IDENTIFIER"))
         [] st.token # None /\ st.token.token_type # "RPAREN"
              /\ st.token.val # <<46>> ->
              after_datum(_datum(buffer, st))

_list(buffer, st) ==
    LET closed(loop, r) ==
            IF r.err # ""
            THEN r
            ELSE IF loop.dot_index > 0
            THEN IF loop.dot_index = Len(loop.datums) - 1
                 THEN Parsed(fold_pairs(SubSeq(loop.datums, 1, Len(loop.datums) - 1),
                                        loop.datums[Len(loop.datums)]),
                             r.st)
                 ELSE ParseFailed(_error(r.st.token, 0), r.st)
            ELSE Parsed(fold_pairs(loop.datums, Nil), r.st)
        looped(loop) ==
            IF loop.err # ""
            THEN ParseFailed(loop.err, loop.st)
            ELSE closed(loop, _consume(buffer, loop.st, "RPAREN"))
        opened(r) ==
            IF r.err # "" THEN r ELSE looped(list_loop(buffer, r.st, <<>>, 0))
    IN opened(_consume(buffer, st, "LPAREN"))

_abbreviation(buffer, st) ==
    LET quoted(r) ==
            IF r.err # ""
            THEN r
            ELSE Parsed(Pair(Symbol(s_quote), Pair(r.val, None)), r.st)
        consumed(r) == IF r.err # "" THEN r ELSE quoted(_datum(buffer, r.st))
    IN consumed(_consume(buffer, st, "QUOTE"))

_datum(buffer, st) ==
    CASE st.token = None -> ParseFailed("AttributeError", st)
      [] st.token # None /\ st.token.token_type = "LPAREN" -> _list(buffer, st)
      [] st.token # None /\ st.token.token_type = "QUOTE" ->
           _abbreviation(buffer, st)
      [] OTHER -> _simple_datum(buffer, st)

RECURSIVE _parse_file(_, _, _)
_parse_file(buffer, st, datums) ==
    LET after(r) ==
            IF r.err # "" THEN r ELSE _parse_file(buffer, r.st, Append(datums, r.val))
    IN IF st.token = None
       THEN Parsed(datums, st)
       ELSE after(_datum(buffer, st))

\* Parser(text).parse()
parse(text) ==
    LET started(r) == IF r.err # "" THEN r ELSE _parse_file(text, r.st, <<>>)
    IN started(_get_token(text, ParserState(0, None)))

\* the reprs of the top-level data, one per line
RECURSIVE pretty_print(_)
pretty_print(datums) ==
    IF datums = <<>> THEN <<>>
    ELSE IF Len(datums) = 1 THEN Repr(datums[1])
    ELSE Repr(Head(datums)) \o <<10>> \o pretty_print(Tail(datums))

----------------------------------------------------------------------------
(* The reader on its own: a source text is parsed, the data are printed    *)
(* and the print is parsed again.                                          *)

MaxTokens == 5     \* lexemes of a source text

\* ( ) . a ' +
Lexemes == {<<40>>, <<41>>, <<46>>, <<97>>, <<39>>, <<43>>}
LexemeSeqs == UNION {[1..n -> Lexemes] : n \in 0..MaxTokens}

\* the lexemes, each followed by one space
RECURSIVE Source(_)
Source(lexemes) ==
    IF lexemes = <<>> THEN <<>> ELSE Head(lexemes) \o <<32>> \o Source(Tail(lexemes))

InitRead ==
    /\ lexer \in {Lexer(Source(lexemes)) : lexemes \in LexemeSeqs}
    /\ pc = "read"
    /\ prog = <<>>
    /\ code = None
    /\ frames = <<>>
    /\ frame = 0
    /\ envs = <<>>
    /\ return_value = None
    /\ output = <<>>
    /\ vmerr = ""
    /\ ienvs = <<>>
    /\ ienv = 0
    /\ ipos = 0
    /\ iout = <<>>
    /\ ierr = ""
    /\ bytes = <<>>
    /\ sererr = ""
    /\ decoded = None
    /\ last = None

\* Parser(text).parse() on the source text
Parse ==
    /\ pc = "read"
    /\ \E r \in {parse(lexer.buffer)} :
          /\ prog' = IF r.err = "" THEN r.val ELSE <<>>
          /\ lexer' = [lexer EXCEPT !.pos = r.st.pos]
          /\ last' = [op |-> "parse", text |-> lexer.buffer, err |-> r.err]
    /\ pc' = "parsed"
    /\ UNCHANGED <<code, frames, frame, envs, return_value, output, vmerr, ienvs,
                   ienv, ipos, iout, ierr, bytes, sererr, decoded>>

\* the data are printed and the print is handed to a new Lexer
PrettyPrint ==
    /\ pc = "parsed"
    /\ last.err = ""
    /\ lexer' = Lexer(pretty_print(prog))
    /\ pc' = "printed"
    /\ UNCHANGED <<prog, code, frames, frame, envs, return_value, output, vmerr, ienvs,
                   ienv, ipos, iout, ierr, bytes, sererr, decoded, last>>

\* Parser(text).parse() on the print
Reparse ==
    /\ pc = "printed"
    /\ \E r \in {parse(lexer.buffer)} :
          /\ lexer' = [lexer EXCEPT !.pos = r.st.pos]
          /\ last' = [op |-> "reparse", text |-> last.text, err |-> r.err,
                      val |-> IF r.err = "" THEN r.val ELSE <<>>]
    /\ pc' = "reread"
    /\ UNCHANGED <<prog, code, frames, frame, envs, return_value, output, vmerr, ienvs,
                   ienv, ipos, iout, ierr, bytes, sererr, decoded>>

NextRead ==
    \/ Parse
    \/ PrettyPrint
    \/ Reparse

SpecRead == InitRead /\ [][NextRead]_vars

----------------------------------------------------------------------------
(* Properties of the reader.                                               *)

\* the lexemes of a source text: the characters at the odd places
LexemesOf(text) == [i \in 1..(Len(text) \div 2) |-> text[2 * i - 1]]

\* the text is one list whose elements are dots and symbols
FlatList(text) ==
    LET lexemes == LexemesOf(text)
    IN /\ Len(lexemes) >= 2
       /\ lexemes[1] = 40
       /\ lexemes[Len(lexemes)] = 41
       /\ \A i \in 2..(Len(lexemes) - 1) : lexemes[i] \in {46, 97, 43}

(* C17: in a list a '.' is accepted only as the single dot, after at least *)
(* one datum and before exactly one datum, which becomes the final cdr; a  *)
(* list with a dot anywhere else or with several dots is a syntax error.   *)
C17_DottedLists ==
    (pc = "parsed" /\ FlatList(last.text)) =>
        LET lexemes == LexemesOf(last.text)
            n == Len(lexemes)
            dots == {i \in 2..(n - 1) : lexemes[i] = 46}
            data == [i \in 1..(n - 2) |-> Symbol(<<lexemes[i + 1]>>)]
        IN CASE dots = {} ->
                  last.err = "" /\ prog = <<fold_pairs(data, Nil)>>
             [] dots = {n - 2} /\ n >= 5 ->
                  /\ last.err = ""
                  /\ prog = <<fold_pairs(SubSeq(data, 1, n - 4), data[n - 2])>>
             [] OTHER -> last.err = "ParserError"

\* no Pair of the datum has None in place of a datum or of the end of a list
RECURSIVE ProperDatum(_)
ProperDatum(datum) ==
    IF IsInstance(datum, "Pair")
    THEN ProperDatum(datum.first) /\ ProperDatum(datum.second)
    ELSE datum # None

(* C18: 'x is read as the list (quote x), Pair(Symbol("quote"), Pair(x,    *)
(* Nil)), ended by Nil like every list, at every depth of the data read.   *)
C18_QuoteExpansion ==
    (pc = "parsed" /\ last.err = "") =>
        /\ \A k \in 1..Len(prog) : ProperDatum(prog[k])
        /\ (Len(last.text) > 2 /\ last.text[1] = 39) =>
              LET rest == parse(SubSeq(last.text, 3, Len(last.text)))
              IN /\ rest.err = ""
                 /\ rest.val # <<>>
                 /\ prog[1] = Pair(Symbol(s_quote), Pair(rest.val[1], Nil))

(* C19: when a source text without the ' sugar is read, the print of its   *)
(* data is read again without error and gives data equal to the first.     *)
C19_ReaderRoundTrip ==
    (/\ pc = "reread"
     /\ \A i \in 1..Len(last.text) : last.text[i] # 39) =>
        /\ last.err = ""
        /\ Len(last.val) = Len(prog)
        /\ \A k \in 1..Len(prog) : PyEq(last.val[k], prog[k])

----------------------------------------------------------------------------
(* Properties of the code objects the compiler assembles.                  *)

\* the CodeObjects among the constants of co
NestedCode(co) ==
    {co.constants[k] : k \in {j \in DOMAIN co.constants :
                                 IsInstance(co.constants[j], "CodeObject")}}

IsJump(instruction) == instruction.opcode \in {OP_JUMP, OP_JUMP_IF_FALSE}

(* Every argument of co that is an index is in range: into constants for   *)
(* LOAD_CONST and DEF_FUNC, into varnames for LOAD_VAR, SET_VAR and        *)
(* DEF_VAR, and for a jump into 0..(len(code) - 1 + past_end); the same    *)
(* holds in every nested CodeObject with targets inside the code.          *)
RECURSIVE WellFormed(_, _)
WellFormed(co, past_end) ==
    /\ \A i \in DOMAIN co.code :
          LET instruction == co.code[i]
          IN CASE instruction.opcode \in {OP_LOAD_CONST, OP_DEF_FUNC} ->
                    instruction.arg.value \in 0..(Len(co.constants) - 1)
               [] instruction.opcode \in {OP_LOAD_VAR, OP_SET_VAR, OP_DEF_VAR} ->
                    instruction.arg.value \in 0..(Len(co.varnames) - 1)
               [] IsJump(instruction) ->
                    instruction.arg.value \in 0..(Len(co.code) - 1 + past_end)
               [] OTHER -> TRUE
    /\ \A nested \in NestedCode(co) : WellFormed(nested, 0)

(* C21, as stated: in every CodeObject the compiler produces, top-level    *)
(* and nested, every index into constants and varnames is in range and     *)
(* every jump target is an instruction index of the same code,             *)
(* 0 <= target < len(code).                                                *)
C21_WellFormedStrict == code # None => WellFormed(code, 0)

(* C21, amended: the indexes into constants and varnames are in range; a   *)
(* jump target of a nested CodeObject is an instruction index of its code; *)
(* a jump target of the top-level CodeObject is at most len(code), the     *)
(* position just past the last instruction.                                *)
C21_WellFormed == code # None => WellFormed(code, 1)

\* a program that ends in a cond was compiled: its JUMP leads past the end
C21_Witness ==
    /\ code # None
    /\ prog = ProgCond(0, 1)
    /\ \E i \in DOMAIN code.code :
          IsJump(code.code[i]) /\ code.code[i].arg.value = Len(code.code)

----------------------------------------------------------------------------
(* The lowering of if, seen from the run of ProgIfLowering.                *)

\* the branch that runs: t unless c is Boolean(False)
IfTaken(c, tk, ek) == IF c = "f" THEN ek ELSE tk

\* the value of the leaf that a branch reaches
IfValue(kind, c2, k) ==
    IF kind = "leaf" THEN k ELSE IF c2 = "f" THEN k + 4 ELSE k + 2

(* what a run prints when the if evaluates c once, then the one branch,    *)
(* and leaves its value for the + that waits for it                        *)
IfExpected(c, tk, ek, c2) ==
    LET v == IfValue(IfTaken(c, tk, ek), c2, IF c = "f" THEN 2 ELSE 1)
    IN <<IntStr(0), IntStr(v), IntStr(1 + v)>>

(* C22: for a compiled (if c t e) the VM evaluates c once, then exactly    *)
(* one of t and e (t iff c is not #f), and continues after e's code with   *)
(* exactly one value added to the stack; so for ifs nested in a branch and *)
(* for ifs in a lambda body nested in an if.                               *)
C22_IfLowering ==
    pc = "done" =>
        \A c \in IfConds, tk \in IfBranches, ek \in IfBranches, c2 \in {"t", "f"} :
            prog = ProgIfLowering(c, tk, ek, c2) =>
                vmerr = "" /\ output = IfExpected(c, tk, ek, c2)

(* The same, for the runs whose branch is an expression with a value: it   *)
(* holds for them.  A branch that is a define adds no value.               *)
IfLoweringOfValues ==
    pc = "done" =>
        \A c \in IfConds, tk \in IfBranches, ek \in IfBranches, c2 \in {"t", "f"} :
            prog = ProgIfLowering(c, tk, ek, c2) =>
                IF IfTaken(c, tk, ek) = "define"
                THEN vmerr = "IndexError" /\ output = <<IntStr(0)>>
                ELSE vmerr = "" /\ output = IfExpected(c, tk, ek, c2)

----------------------------------------------------------------------------
(* The pools of a CodeObject: constants and varnames.                      *)

IsScalar(obj) == obj.t \in {"Number", "Boolean", "Symbol", "Nil"}

(* No two scalar constants of co are equal, varnames has no duplicate, no  *)
(* two instructions share a constant that is a Pair or a CodeObject; the   *)
(* same in every nested CodeObject.                                        *)
RECURSIVE PoolsDeduplicated(_)
PoolsDeduplicated(co) ==
    /\ \A i \in DOMAIN co.constants : \A j \in DOMAIN co.constants :
          (i < j /\ IsScalar(co.constants[i]) /\ IsScalar(co.constants[j]))
             => ~PyEq(co.constants[i], co.constants[j])
    /\ \A i \in DOMAIN co.varnames : \A j \in DOMAIN co.varnames :
          i < j => co.varnames[i] # co.varnames[j]
    /\ \A i \in DOMAIN co.code : \A j \in DOMAIN co.code :
          (/\ i < j
           /\ co.code[i].opcode \in {OP_LOAD_CONST, OP_DEF_FUNC}
           /\ co.code[j].opcode \in {OP_LOAD_CONST, OP_DEF_FUNC}
           /\ ~IsScalar(co.constants[co.code[i].arg.value + 1]))
             => co.code[i].arg.value # co.code[j].arg.value
    /\ \A nested \in NestedCode(co) : PoolsDeduplicated(nested)

\* func_code without its Labels: entry i is what co.code[i] was made from
RECURSIVE WithoutLabels(_)
WithoutLabels(func_code) ==
    IF func_code = <<>>
    THEN <<>>
    ELSE IF IsInstance(Head(func_code), "Label")
    THEN WithoutLabels(Tail(func_code))
    ELSE <<Head(func_code)>> \o WithoutLabels(Tail(func_code))

(* Each LOAD_CONST and DEF_FUNC of co indexes the very literal or          *)
(* CodeObject of the instruction it was assembled from (same class, same   *)
(* value), each LOAD_VAR, DEF_VAR and SET_VAR the name of its Symbol.      *)
EmittedFor(emitted, co) ==
    /\ Len(emitted) = Len(co.code)
    /\ \A i \in DOMAIN co.code :
          /\ co.code[i].opcode = emitted[i].opcode
          /\ CASE emitted[i].opcode \in {OP_LOAD_CONST, OP_DEF_FUNC} ->
                    co.constants[co.code[i].arg.value + 1] = emitted[i].arg
               [] emitted[i].opcode \in {OP_LOAD_VAR, OP_DEF_VAR, OP_SET_VAR} ->
                    co.varnames[co.code[i].arg.value + 1]
                        = Str(emitted[i].arg.value)
               [] OTHER -> TRUE

(* C23: in every CodeObject the compiler produces no two scalar constants  *)
(* are equal (and an integer is never merged with a boolean or a symbol),  *)
(* every quoted Pair occurrence and every nested CodeObject has an entry   *)
(* of its own, varnames has no duplicate, and the argument of each         *)
(* LOAD_CONST, LOAD_VAR, DEF_VAR and SET_VAR indexes an entry equal to the *)
(* literal or name it was emitted for.                                     *)
C23_Pools ==
    code # None =>
        /\ PoolsDeduplicated(code)
        /\ EmittedFor(WithoutLabels(_compile_expressions(prog, 0).ins), code)

(* (print 1) (print #t) (print 1) ... was compiled: 1 and #t have an entry *)
(* each, the two (print 1) share theirs, the two '(1) do not.              *)
C23_Witness ==
    /\ prog = ProgLiterals("1", "t")
    /\ code # None
    /\ code.constants = <<Number(1), Boolean(PyTrue),
                          List(<<Number(1)>>), List(<<Number(1)>>),
                          code.constants[5]>>
    /\ code.code[1].arg = code.code[9].arg
    /\ code.code[13].arg # code.code[17].arg

----------------------------------------------------------------------------
(* The return of a closure call.                                           *)

\* the frame on top executes RETURN and its caller is a PROC_CALL
ClosureReturns == At(OP_RETURN) /\ Len(frames) > RootDepth

(* C24: the value pushed on the caller's stack when a closure call returns *)
(* is the value on top of the callee's own stack at RETURN; when the       *)
(* callee's stack is empty at RETURN (an empty body, a body that ends in   *)
(* define or set!) the value delivered is no value (None), never the       *)
(* value that an earlier call returned.                                    *)
C24_ReturnValue ==
    [][ClosureReturns =>
         LET delivered == IF Top.stack # <<>>
                          THEN Top.stack[Len(Top.stack)]
                          ELSE None
         IN frames'[Len(frames')].stack
                = Append(frames[Len(frames) - 1].stack, delivered)
      ]_vars

\* (f) returned a, then (g), whose body is a define, returned a as well
StaleValuePrinted ==
    /\ prog = ProgStale(1, 2)
    /\ pc = "done"
    /\ vmerr = "" /\ output = <<IntStr(1)>>
    /\ iout = <<s_none>>

----------------------------------------------------------------------------
(* The POP between the expressions of a sequence.                          *)

\* the top frame executes the POP that follows a define or a set!
PopAfterDefine ==
    /\ At(OP_POP)
    /\ Top.instr_pointer > 0
    /\ Top.codeobject.code[Top.instr_pointer].opcode \in {OP_DEF_VAR, OP_SET_VAR}

(* C25: a POP between sub-expressions discards only the value of the       *)
(* sub-expression immediately before it, never a value that an enclosing   *)
(* expression has pushed: the POP after a define, which left no value,     *)
(* discards nothing, and in (+ a (begin (define x b) 3)) the operand a is  *)
(* still on the stack when PROC_CALL 2 executes, so that the call yields   *)
(* a + 3.                                                                  *)
C25_StackDiscipline ==
    /\ PopAfterDefine => Top.stack = <<>>
    /\ pc = "done" =>
          \A a \in Nums, b \in Nums :
              prog = ProgBeginOperand(a, b) =>
                  vmerr = "" /\ output = <<IntStr(a + 3)>>

\* the run of (print (+ 1 (begin (define x 2) 3))) ended in an IndexError
OperandDiscarded ==
    /\ prog = ProgBeginOperand(1, 2)
    /\ pc = "done"
    /\ vmerr = "IndexError" /\ output = <<>>

----------------------------------------------------------------------------
(* schemey.py: run_file.  The code object is serialized, written to the    *)
(* bytecode file, read back, deserialized and run by a new VirtualMachine. *)
(* Here that follows a run of the compiled code object itself, whose       *)
(* output and exception last keeps, so that the two runs can be compared.  *)

run_file ==
    /\ pc = "interp" /\ code # None /\ last = None
    /\ \E written \in {serialize(code)} :
       \E loaded \in {IF written.err # "" THEN written
                    ELSE deserialize(written.bytes)} :
          IF loaded.err # ""
          THEN /\ sererr' = loaded.err
               /\ pc' = "failed"
               /\ UNCHANGED <<frames, frame, envs, return_value, output, vmerr,
                              bytes, decoded, last>>
          ELSE LET made == _make_frame(<<>>, loaded.val, <<>>, 0, 0)
               IN /\ bytes' = written.bytes
                  /\ decoded' = loaded.val
                  /\ envs' = made.heap
                  /\ frames' = <<made.frame>>
                  /\ frame' = 1
                  /\ return_value' = None
                  /\ output' = <<>>
                  /\ vmerr' = ""
                  /\ last' = [op |-> "run_file", root |-> 1, raised |-> vmerr,
                              output |-> output]
                  /\ pc' = "vm"
                  /\ sererr' = sererr
    /\ UNCHANGED <<lexer, prog, code, ienvs, ienv, ipos, iout, ierr>>

NextFile ==
    \/ Compile
    \/ RunCode
    \/ LoadConst
    \/ LoadVar
    \/ SetVar
    \/ DefVar
    \/ DefFunc
    \/ ProcCall
    \/ JumpIfFalse
    \/ Jump
    \/ Return
    \/ Pop
    \/ FrameEnd
    \/ run_file

SpecFile == Init /\ [][NextFile]_vars

\* the run of the code object read back from the file has ended
FileRunEnded == last # None /\ pc = "interp"

(* C26: for every compiled CodeObject that serializes, the run of          *)
(* deserialize(serialize(C)) takes the branches, makes the calls and       *)
(* writes the output of the run of C: a literal #f is still false after    *)
(* it was written as a 32-bit word and read back, and an instruction       *)
(* without argument behaves with arg 0 as it does with no arg.             *)
C26_RoundTripRun ==
    FileRunEnded => output = last.output /\ vmerr = last.raised

\* the code object of (print (if #f 0 1)) prints 1, read back it prints 0
FalseReadBackAsTrue ==
    /\ prog = ProgIf(0, 1)
    /\ FileRunEnded
    /\ last.output = <<IntStr(1), IntStr(0), IntStr(-1)>>
    /\ output = <<IntStr(0), IntStr(0), IntStr(-1)>>

----------------------------------------------------------------------------
(* The frame stack: self.frames and self.frame.                            *)

\* a PROC_CALL whose callee is a closure has pushed the callee's frame
ClosureFramePushed ==
    /\ At(OP_PROC_CALL) /\ pc' = "vm"
    /\ Top.stack # <<>>
    /\ IsInstance(Top.stack[Len(Top.stack)], "Closure")

\* run_code returns without an exception
ReturnsNormally == pc = "vm" /\ pc' = "interp" /\ vmerr' = ""

(* What a step does to the frame stack: a closure call leaves the caller   *)
(* past its PROC_CALL, without the callee and the N arguments, under one   *)
(* new frame; a return takes that frame off and gives the caller one more  *)
(* value, its instruction pointer as the call left it; no step changes a   *)
(* frame under the current one; a run_code that returns leaves no frame.   *)
FrameStep ==
    /\ ClosureFramePushed =>
          LET proc == Top.stack[Len(Top.stack)]
              callee == frames'[Len(frames')]
          IN /\ Len(frames') = Len(frames) + 1
             /\ frames'[Len(frames)]
                   = [Top EXCEPT !.instr_pointer = @ + 1,
                                 !.stack = DropLast(@, CurInstr.arg.value + 1)]
             /\ callee.codeobject = proc.codeobject
             /\ callee.instr_pointer = 0 /\ callee.stack = <<>>
    /\ ClosureReturns =>
          LET caller == frames[Len(frames) - 1]
              after == frames'[Len(frames')]
          IN /\ Len(frames') = Len(frames) - 1
             /\ caller.codeobject.code[caller.instr_pointer].opcode = OP_PROC_CALL
             /\ after.instr_pointer = caller.instr_pointer
             /\ after.codeobject = caller.codeobject
             /\ after.environment = caller.environment
             /\ Len(after.stack) = Len(caller.stack) + 1
             /\ SubSeq(after.stack, 1, Len(caller.stack)) = caller.stack
    /\ \A i \in 1..Len(frames) :
          (i < Len(frames) /\ i < Len(frames')) => frames'[i] = frames[i]
    /\ ReturnsNormally => frames' = <<>>

(* C27: self.frame is the top of self.frames (None when it is empty); a    *)
(* closure call pushes exactly one frame and the return pops exactly that  *)
(* frame, after which the caller's frame is current, its instruction       *)
(* pointer after the PROC_CALL and its stack the stack before the call     *)
(* without the callee and the N arguments and with exactly one result;     *)
(* when run_code returns normally the frame stack is empty.                *)
C27_FrameStack == [](frame = Len(frames)) /\ [][FrameStep]_vars

\* a run_code has returned normally and self.frames still holds a frame
FrameLeftBehind ==
    /\ last # None
    /\ pc = "interp" /\ vmerr = ""
    /\ frames # <<>>

----------------------------------------------------------------------------
(* The Environment of an activation.                                       *)

\* 0 + 1 + ... + a
SumTo(a) == (a * (a + 1)) \div 2

(* A step of the VM and the Environment objects: a closure call binds the  *)
(* parameters in an Environment that did not exist before and that is the  *)
(* environment of no other frame, and leaves every existing Environment as *)
(* it was; no instruction changes an Environment that is not on the chain  *)
(* of the current frame's environment.                                     *)
ActivationStep ==
    /\ ClosureCalled =>
          /\ NewFrame.environment \notin 1..Len(envs)
          /\ SubSeq(envs', 1, Len(envs)) = envs
          /\ \A i \in 1..Len(frames) :
                frames'[i].environment # NewFrame.environment
          /\ DOMAIN envs'[NewFrame.environment].binding
                = {Callee.codeobject.args[i].value :
                      i \in 1..Len(Callee.codeobject.args)}
    /\ Running =>
          \A e \in 1..Len(envs) :
              ~OnChain(envs, e, Top.environment) => envs'[e] = envs[e]

(* C28: every closure call binds the parameters in a new environment that  *)
(* no other activation shares; a nested or recursive call never changes    *)
(* the parameters or local defines of the suspended outer activation (f    *)
(* reads its n after the recursive call returned), and two closures that   *)
(* two calls of the same procedure returned do not share the captured      *)
(* parameter; so in the VM and in the tree interpreter.                    *)
C28_FreshActivation ==
    /\ [][ActivationStep]_vars
    /\ [](pc = "done" =>
            /\ \A a \in Nums :
                  prog = ProgSum(a) =>
                      /\ vmerr = "" /\ output = <<IntStr(SumTo(a))>>
                      /\ ierr = "" /\ iout = <<IntStr(SumTo(a))>>
            /\ \A a \in Nums, b \in Nums :
                  prog = ProgTwoAdders(a, b) =>
                      /\ vmerr = "" /\ output = <<IntStr(a), IntStr(b)>>
                      /\ ierr = "" /\ iout = <<IntStr(a), IntStr(b)>>)

(* In the third activation of f, n = 0, while the two suspended            *)
(* activations hold n = 2 and n = 1 in Environments of their own.          *)
C28_Witness ==
    /\ prog = ProgSum(2)
    /\ pc = "vm" /\ Len(frames) = 4
    /\ envs[frames[2].environment].binding[s_n] = Number(2)
    /\ envs[frames[3].environment].binding[s_n] = Number(1)
    /\ envs[frames[4].environment].binding[s_n] = Number(0)
    /\ frames[2].environment # frames[3].environment
    /\ frames[3].environment # frames[4].environment

----------------------------------------------------------------------------
(* schemey.py: run_repl.  One Interpreter runs the inputs one after the    *)
(* other; an exception of an input is caught and the loop goes on with the *)
(* next input.  The inputs are the forms of prog, one form an input; ierr  *)
(* is the exception of the last input ("" if it returned).                 *)

InitRepl ==
    /\ prog \in Programs
    /\ pc = "repl"
    /\ code = None
    /\ frames = <<>>
    /\ frame = 0
    /\ envs = <<>>
    /\ return_value = None
    /\ output = <<>>
    /\ vmerr = ""
    /\ ienvs = <<interp_standard_env>>
    /\ ienv = 1
    /\ ipos = 0
    /\ iout = <<>>
    /\ ierr = ""
    /\ bytes = <<>>
    /\ sererr = ""
    /\ decoded = None
    /\ lexer = None
    /\ last = None

run_repl ==
    /\ pc = "repl" /\ ipos < Len(prog)
    /\ \E r \in {_eval(prog[ipos + 1],
                      [heap |-> ienvs, env |-> ienv, out |-> iout], 0)} :
          /\ ienvs' = r.st.heap
          /\ ienv' = r.st.env
          /\ iout' = r.st.out
          /\ ierr' = r.err
    /\ ipos' = ipos + 1
    /\ UNCHANGED <<lexer, frame, prog, pc, code, frames, envs, return_value, output,
                   vmerr, bytes, sererr, decoded, last>>

NextRepl == run_repl

SpecRepl == InitRepl /\ [][NextRepl]_vars

(* C29: after the tree interpreter has finished a top-level form, whether  *)
(* the form returned or an error raised inside a closure body aborted it,  *)
(* its current environment is the global environment again; in the REPL a  *)
(* define or a lookup after a failed input acts on the global frame.       *)
C29_EnvironmentRestored ==
    /\ ienv = 1
    /\ \A a \in Nums, b \in Nums :
          (prog = ProgFailingCall(a, b) /\ ipos = Len(prog)) =>
              /\ s_y \in DOMAIN ienvs[1].binding
              /\ iout = <<IntStr(b), IntStr(b)>>

(* (f) failed in the body of f; the define of y that followed it bound y   *)
(* in the Environment of that call of f, and y is undefined for g.         *)
DefineAfterFailedInput ==
    /\ prog = ProgFailingCall(1, 2)
    /\ ipos = Len(prog)
    /\ ienv # 1
    /\ s_y \notin DOMAIN ienvs[1].binding
    /\ ierr = "Undefined" /\ iout = <<>>

----------------------------------------------------------------------------
(* Jumps and the end of run_code.  The loop of _run_frame runs the next    *)
(* instruction, or ends the frame, as long as run_code has not returned:   *)
(* that is the fairness of SpecLive.                                       *)

_run_frame ==
    \/ LoadConst
    \/ LoadVar
    \/ SetVar
    \/ DefVar
    \/ DefFunc
    \/ ProcCall
    \/ JumpIfFalse
    \/ Jump
    \/ Return
    \/ Pop
    \/ FrameEnd

SpecLive == Init /\ [][Next]_vars /\ WF_vars(_run_frame)

\* every jump of co and of its nested CodeObjects leads to a later instruction
RECURSIVE ForwardJumps(_)
ForwardJumps(co) ==
    /\ \A i \in DOMAIN co.code :
          IsJump(co.code[i]) => co.code[i].arg.value > i - 1
    /\ \A nested \in NestedCode(co) : ForwardJumps(nested)

(* the instruction pointer of a frame never goes back, and the instruction *)
(* that the current frame executes moves it forward                        *)
PointerAdvances ==
    /\ \A i \in 1..Len(frames) :
          i <= Len(frames') =>
              frames'[i].instr_pointer >= frames[i].instr_pointer
    /\ (Running /\ HasInstr /\ Len(frames') >= Len(frames)) =>
          frames'[frame].instr_pointer > Top.instr_pointer

\* no closure is called while a call of it is active
NoRecursiveCall ==
    \A i \in 1..Len(frames) : \A j \in 1..Len(frames) :
        i < j => frames[i].codeobject # frames[j].codeobject

\* run_code has returned or raised (or nothing was compiled to run)
RunCodeFinished == pc \in {"interp", "done"}

(* C30: the target of every JUMP and JUMP_IF_FALSE is greater than the     *)
(* jump's own index; within one activation of a frame the instruction      *)
(* pointer strictly increases, so that each instruction is executed at     *)
(* most once; and every program that makes no recursive closure call       *)
(* eventually finishes run_code.                                           *)
C30_Termination ==
    /\ [](code # None => ForwardJumps(code))
    /\ [][PointerAdvances]_vars
    /\ ([]NoRecursiveCall => (pc = "vm" ~> RunCodeFinished))

(* The same for every program, recursive or not; it does not hold:         *)
(* (define (f) (f)) (f) goes on calling, here up to MaxFrames frames.      *)
EveryRunEnds == pc = "vm" ~> RunCodeFinished

(* The run of a program with an if in a procedure has ended: its jumps     *)
(* were taken and no call was recursive.                                   *)
C30_Witness ==
    /\ prog = ProgIfLowering("f", "lambda", "lambda", "f")
    /\ pc = "done"
    /\ vmerr = "" /\ output = <<IntStr(0), IntStr(6), IntStr(7)>>

=============================================================================
